---- MODULE Spec2Model ----
(***************************************************************************)
(* Grid-to-hierarchy extraction of agnardarri/sedlagogn (backend/):        *)
(*   hierarchy_mapper.py   extract_hierarchy_data, build_section_hierarchy *)
(*   extract_json.py       extract_nested_json / parse_section             *)
(*   dataframe_parser.py   parse_excel_to_dataframe                        *)
(*   openpyxl_parser.py    ExcelSheetParser.extract_dates_from_header      *)
(*   scraper/download_data.py   download_subcategory_data                  *)
(* One behaviour runs one of the programs (prog) on one worksheet (ws) and *)
(* one configuration (banking_config).  Loops advance one iteration per    *)
(* step.  Text is a sequence of one-character strings so that strip, split *)
(* and join are computed, not assumed.                                     *)
(***************************************************************************)
EXTENDS Integers, Sequences, FiniteSets, TLC

VARIABLES
    prog,             \* which program runs in this behaviour
    ws,               \* the worksheet: [max_row, max_column, cell]
    banking_config,   \* the sheet configuration read from the schema
    template,         \* ExcelSheetParser.template (dates of its metadata, or none)
    data_region,      \* ExcelSheetParser: (start_row, title_col, data_start_col)
    pc,               \* position of the running program
    col,              \* header loop variable
    dates,            \* the period axis under construction
    level_pos,        \* position of `for level in ..._hierarchy`
    row_index,        \* row_index / current_row of the section pass
    assets_data,      \* hierarchy_mapper: flat entries of the section
    node_pos,         \* build_section_hierarchy: position of `for node in nodes`
    root_nodes,       \* build_section_hierarchy: root_nodes
    node_map,         \* build_section_hierarchy: node_map (level -> node)
    children,         \* build_section_hierarchy: node["children"] of every node
    stack,            \* parse_section: stack of (node, level)
    result,           \* parse_section: [nodes, children], node 0 is the section root
    current_parents,  \* dataframe_parser: current_parents (level -> name)
    all_data,         \* dataframe_parser: all_data (flat rows)
    df,               \* dataframe_parser: the returned frame
    liab_pos,         \* position of `for level in liabilities_hierarchy`
    liabilities_data, \* hierarchy_mapper: flat entries of the liabilities section
    liabilities_build, \* build_section_hierarchy(liabilities_data): its locals
    readable,         \* map_test_schema_to_hierarchy: the readable mappings
    in_assets,        \* detect_hierarchy: in_assets
    hierarchy_stack,  \* detect_hierarchy: hierarchy_stack
    detected,         \* detect_hierarchy: the nodes and the children lists
    yaml_data,        \* download_data: data, the content of data_links.yaml
    files,            \* download_data: the paths that exist in the file system
    matches,          \* download_data: matches (the links of each match)
    match_pos,        \* download_data: position of `for match in matches`
    link_pos,         \* download_data: position of `for link in links`
    downloaded_files, \* download_data: result["downloaded_files"]
    failed_downloads, \* download_data: result["failed_downloads"]
    writes            \* download_data: every open(file_path, 'wb') that succeeded

vars == << prog, ws, banking_config, template, data_region, pc, col, dates, level_pos,
           row_index, assets_data, node_pos, root_nodes, node_map, children, stack, result,
           current_parents, all_data, df, liab_pos, liabilities_data, liabilities_build,
           readable, in_assets, hierarchy_stack, detected, yaml_data, files, matches,
           match_pos, link_pos, downloaded_files, failed_downloads, writes >>

(***************************************************************************)
(* Bounds of the model.                                                    *)
(***************************************************************************)
MaxRows == 5      \* longest declared level list
MaxLevel == 3     \* deepest declared level
MaxCols == 2      \* data columns in a value scenario

(***************************************************************************)
(* Text.                                                                   *)
(***************************************************************************)
Min(S) == CHOOSE x \in S : \A y \in S : x <= y
Max(S) == CHOOSE x \in S : \A y \in S : x >= y

T_2024_01 == <<"2","0","2","4","-","0","1">>
T_2024_02 == <<"2","0","2","4","-","0","2">>
T_Total == <<"T","o","t","a","l">>
T_na == <<"n","/","a">>
T_midnight == <<"0","0",":","0","0">>
T_noon == <<"1","2",":","0","0">>

\* str.strip(): leading and trailing blanks removed
Strip(s) ==
    LET keep == {i \in 1..Len(s) : s[i] # " "}
    IN  IF keep = {} THEN <<>> ELSE SubSeq(s, Min(keep), Max(keep))

\* str.find(sep): 1-based index of the first occurrence, 0 when absent
Find(s, sep) ==
    LET at == {i \in 1..(Len(s) - Len(sep) + 1) : SubSeq(s, i, i + Len(sep) - 1) = sep}
    IN  IF at = {} THEN 0 ELSE Min(at)

\* Split1 cutting at the last occurrence of sep instead of the first
Split1Last(s, sep) ==
    LET at == {i \in 1..(Len(s) - Len(sep) + 1) : SubSeq(s, i, i + Len(sep) - 1) = sep}
        i == Max(at)
    IN  << SubSeq(s, 1, i - 1), SubSeq(s, i + Len(sep), Len(s)) >>

\* str.split(sep, 1) of a string that contains sep
Split1(s, sep) ==
    LET i == Find(s, sep)
    IN  << SubSeq(s, 1, i - 1), SubSeq(s, i + Len(sep), Len(s)) >>

(***************************************************************************)
(* Cell values.  k is the Python type of the value, n its number (the day  *)
(* ordinal of a datetime), s its text (the time of day of a datetime).     *)
(***************************************************************************)
PyNone == [k |-> "None", n |-> 0, s |-> <<>>]
PyInt(i) == [k |-> "int", n |-> i, s |-> <<>>]
PyFloat(i) == [k |-> "float", n |-> i, s |-> <<>>]
PyBool(b) == [k |-> "bool", n |-> b, s |-> <<>>]
PyText(t) == [k |-> "str", n |-> 0, s |-> t]
PyDatetime(day, time) == [k |-> "datetime", n |-> day, s |-> time]

\* Python truth value of a cell (`if date_value:`)
Truthy(c) ==
    CASE c.k = "None" -> FALSE
      [] c.k \in {"int", "float", "bool"} -> c.n # 0
      [] c.k = "str" -> c.s # <<>>
      [] OTHER -> TRUE

\* isinstance(value, (int, float)); bool is a subclass of int
IsIntOrFloat(c) == c.k \in {"int", "float", "bool"}

\* datetime.strftime("%Y-%m-%d"): the day, the time of day dropped
Strftime(d) ==
    CASE d.n = 0 -> <<"1","9","7","0","-","0","1","-","0","1">>
      [] d.n = 1 -> T_2024_01 \o <<"-","0","1">>
      [] d.n = 2 -> T_2024_02 \o <<"-","0","1">>
      [] OTHER -> <<"2","0","2","4","-","0","3","-","0","1">>

\* pd.to_datetime(value): the timestamp, or None where pandas raises
ToDatetime(c) ==
    CASE c.k = "datetime" -> c
      [] c.k \in {"int", "float"} -> PyDatetime(0, T_midnight)   \* nanoseconds since the epoch
      [] c.k = "str" /\ c.s = T_2024_01 -> PyDatetime(1, T_midnight)
      [] c.k = "str" /\ c.s = T_2024_02 -> PyDatetime(2, T_midnight)
      [] OTHER -> PyNone

\* str(value) of a cell that is not a datetime
PyStr(c) ==
    CASE c.k = "str" -> c.s
      [] c.k = "None" -> <<"N","o","n","e">>
      [] c.k = "bool" -> IF c.n = 0 THEN <<"F","a","l","s","e">> ELSE <<"T","r","u","e">>
      [] OTHER -> IF c.n = 0 THEN <<"0">> ELSE <<"1","0">>

(***************************************************************************)
(* The worksheet.                                                          *)
(***************************************************************************)
\* openpyxl ws.cell(row, column).value: a cell outside the used range is empty
WsCell(w, r, c) ==
    IF r \in 1..w.max_row /\ c \in 1..w.max_column THEN w.cell[r][c] ELSE PyNone

\* pandas df.shape of read_excel(header=None)
DfRows(w) == w.max_row
DfCols(w) == w.max_column

\* pandas df.iloc[r, c], 0-based, in bounds; an empty cell reads as NaN
DfIloc(w, r, c) == w.cell[r + 1][c + 1]

\* pd.notna / not pd.isna
NotNa(c) == c.k # "None"

\* values[key] = val
Put(f, key, val) == [x \in (DOMAIN f) \cup {key} |-> IF x = key THEN val ELSE f[x]]

(***************************************************************************)
(* hierarchy_mapper.extract_hierarchy_data                                 *)
(***************************************************************************)
\* one iteration of the header loop: the axis after the cell date_value
HmHeaderCell(ds, date_value) ==
    IF Truthy(date_value)
    THEN IF date_value.k = "datetime"
         THEN Append(ds, Strftime(date_value))
         ELSE IF ToDatetime(date_value) # PyNone
              THEN Append(ds, Strftime(ToDatetime(date_value)))
              ELSE ds
    ELSE ds

\* HmValues with every period reading the column its own header cell is in
RECURSIVE HmValuesOwn(_, _, _, _)
HmValuesOwn(w, cfg, row, c) ==
    IF c < cfg.data_start_column THEN <<>>
    ELSE LET prev == HmValuesOwn(w, cfg, row, c - 1)
             label == HmHeaderCell(<<>>, WsCell(w, cfg.date_row, c))
             value == WsCell(w, row, c)
         IN  IF label # <<>> /\ value # PyNone /\ IsIntOrFloat(value)
             THEN Put(prev, label[1], value)
             ELSE prev
HmValuesOwnColumn(w, cfg, row, ds, k) == HmValuesOwn(w, cfg, row, w.max_column)

\* the values dict of one row: the k-th period reads column data_start_column + k
RECURSIVE HmValues(_, _, _, _, _)
HmValues(w, cfg, row, ds, k) ==
    IF k = 0 THEN <<>>
    ELSE LET prev == HmValues(w, cfg, row, ds, k - 1)
             value == WsCell(w, row, cfg.data_start_column + (k - 1))
         IN  IF value # PyNone /\ IsIntOrFloat(value)
             THEN Put(prev, ds[k], value)
             ELSE prev

\* the entry of a row whose name cell holds cell_value
HmEntry(w, cfg, row, level, ds, cell_value) ==
    LET name == Strip(PyStr(cell_value))
        sep == <<" ", "/", " ">>
        has == Find(name, sep) # 0
    IN  [ name |-> name,
          hierarchy_level |-> level,
          row |-> row,
          values |-> HmValues(w, cfg, row, ds, Len(ds)),
          is |-> IF has THEN Split1(name, sep)[1] ELSE name,
          en |-> IF has THEN Split1(name, sep)[2] ELSE <<>> ]

\* HmSectionRow without the skip of a row whose name cell is empty
HmSectionRowNoSkip(data, w, cfg, row, level, ds) ==
    Append(data, HmEntry(w, cfg, row, level, ds, WsCell(w, row, cfg.data_name_column)))

\* one iteration of `for level in assets_hierarchy`: the section data after the row
HmSectionRow(data, w, cfg, row, level, ds) ==
    LET cell_value == WsCell(w, row, cfg.data_name_column)
    IN  IF cell_value = PyNone
        THEN data
        ELSE Append(data, HmEntry(w, cfg, row, level, ds, cell_value))

(***************************************************************************)
(* hierarchy_mapper.build_section_hierarchy.  A node is the position of    *)
(* its entry in section_data; its level is the entry's hierarchy_level.    *)
(***************************************************************************)
BuildInit(n) ==
    [ root_nodes |-> <<>>, node_map |-> <<>>, children |-> [i \in 1..n |-> <<>>] ]

\* BuildStep with the parent taken from the deepest tracked level above the node
BuildStepNearest(b, node, level) ==
    LET above == {x \in DOMAIN b.node_map : x < level}
    IN  IF level = 1 \/ above = {}
        THEN [ b EXCEPT !.root_nodes = Append(@, node),
                        !.node_map = [l \in {level} |-> node] ]
        ELSE [ b EXCEPT !.children[b.node_map[Max(above)]] = Append(@, node),
                        !.node_map = [l \in above \cup {level}
                                        |-> IF l = level THEN node ELSE b.node_map[l]] ]

\* one iteration of `for node in nodes`
BuildStep(b, node, level) ==
    IF level = 1
    THEN [ b EXCEPT !.root_nodes = Append(@, node),
                    !.node_map = [l \in {1} |-> node] ]
    ELSE IF (level - 1) \in DOMAIN b.node_map
         THEN [ b EXCEPT !.children[b.node_map[level - 1]] = Append(@, node),
                         !.node_map = [l \in {x \in DOMAIN b.node_map : x <= level} \cup {level}
                                         |-> IF l = level THEN node ELSE b.node_map[l]] ]
         ELSE b

(***************************************************************************)
(* extract_json.extract_nested_json / parse_section.  A node is its        *)
(* position in result.nodes; node 0 is the section root `result`.          *)
(***************************************************************************)
\* one iteration of the header loop
EjHeaderCell(ds, cell_value) ==
    IF NotNa(cell_value)
    THEN IF cell_value.k = "datetime"
         THEN Append(ds, Strftime(cell_value))
         ELSE Append(ds, PyStr(cell_value))
    ELSE ds

\* EjPop with `>` for `>=`: an ancestor of the row's own level is kept
RECURSIVE EjPopKeepsEqual(_, _)
EjPopKeepsEqual(st, level) ==
    IF st = <<>> THEN <<>>
    ELSE IF st[Len(st)][2] > level
         THEN EjPopKeepsEqual(SubSeq(st, 1, Len(st) - 1), level)
         ELSE st

\* `while stack[-1][1] >= level: stack.pop()`; <<>> is the IndexError of an empty stack
RECURSIVE EjPop(_, _)
EjPop(st, level) ==
    IF st = <<>> THEN <<>>
    ELSE IF st[Len(st)][2] >= level
         THEN EjPop(SubSeq(st, 1, Len(st) - 1), level)
         ELSE st

\* the values dict of one row (0-based current_row)
RECURSIVE EjValues(_, _, _, _, _)
EjValues(w, cfg, current_row, ds, k) ==
    IF k = 0 THEN <<>>
    ELSE LET prev == EjValues(w, cfg, current_row, ds, k - 1)
             col_idx == cfg.data_start_column - 1 + (k - 1)
         IN  IF col_idx < DfCols(w)
             THEN LET val == DfIloc(w, current_row, col_idx)
                  IN  IF NotNa(val)
                      THEN Put(prev, ds[k],
                               IF val.k \in {"int", "float"} THEN PyFloat(val.n) ELSE val)
                      ELSE prev
             ELSE prev

EjNode(w, cfg, current_row, ds) ==
    LET name == Strip(PyStr(DfIloc(w, current_row, cfg.data_name_column - 1)))
        has == Find(name, <<"/">>) # 0
    IN  [ name |-> name,
          is |-> IF has THEN Strip(Split1(name, <<"/">>)[1]) ELSE name,
          en |-> IF has THEN Strip(Split1(name, <<"/">>)[2]) ELSE name,
          values |-> EjValues(w, cfg, current_row, ds, Len(ds)) ]

EjInit == [ stack |-> << <<0, 0>> >>, nodes |-> <<>>, children |-> [i \in {0} |-> <<>>] ]

\* one iteration of `for level in hierarchy_levels` on a non-blank row in the frame
EjSectionRow(p, w, cfg, current_row, level, ds) ==
    LET popped == EjPop(p.stack, level)
        id == Len(p.nodes) + 1
        parent == popped[Len(popped)][1]
    IN  [ stack |-> Append(popped, <<id, level>>),
          nodes |-> Append(p.nodes, EjNode(w, cfg, current_row, ds)),
          children |-> [i \in (DOMAIN p.children) \cup {id} |->
                          IF i = id THEN <<>>
                          ELSE IF i = parent THEN Append(p.children[i], id)
                          ELSE p.children[i]] ]

(***************************************************************************)
(* dataframe_parser.parse_excel_to_dataframe                               *)
(***************************************************************************)
\* one iteration of the header loop: the axis keeps the timestamps themselves
DfHeaderCell(ds, date_value) ==
    IF Truthy(date_value)
    THEN IF date_value.k = "datetime"
         THEN Append(ds, date_value)
         ELSE IF ToDatetime(date_value) # PyNone
              THEN Append(ds, ToDatetime(date_value))
              ELSE ds
    ELSE ds

\* current_parents after the row: its own level set, deeper levels cleared
DfParents(cp, level, name) ==
    [l \in {x \in DOMAIN cp : x <= level} \cup {level} |-> IF l = level THEN name ELSE cp[l]]

\* the direct parent of a row of this level
DfParent(cp, level) ==
    IF level > 1 /\ (level - 1) \in DOMAIN cp THEN cp[level - 1] ELSE PyNone

\* the flat rows of one grid row, one per period whose cell is a number
RECURSIVE DfRowValues(_, _, _, _, _, _, _, _)
DfRowValues(w, cfg, row, ds, k, name, parent, level) ==
    IF k = 0 THEN <<>>
    ELSE LET prev == DfRowValues(w, cfg, row, ds, k - 1, name, parent, level)
             value == WsCell(w, row, cfg.data_start_column + (k - 1))
             sep == <<" ", "/", " ">>
             nsplit == name.k = "str" /\ Find(name.s, sep) # 0
             psplit == parent.k = "str" /\ Find(parent.s, sep) # 0
         IN  IF value # PyNone /\ IsIntOrFloat(value)
             THEN Append(prev,
                    [ date |-> ds[k],
                      name |-> name,
                      name_is |-> IF nsplit THEN PyText(Split1(name.s, sep)[1]) ELSE name,
                      name_en |-> IF nsplit THEN PyText(Split1(name.s, sep)[2]) ELSE PyText(<<>>),
                      type |-> "asset",
                      parent |-> parent,
                      parent_is |-> IF psplit THEN PyText(Split1(parent.s, sep)[1]) ELSE parent,
                      parent_en |-> IF psplit THEN PyText(Split1(parent.s, sep)[2]) ELSE PyText(<<>>),
                      hierarchy_level |-> level,
                      value |-> value ])
             ELSE prev

\* one iteration of `for level in assets_hierarchy`
DfSectionRow(d, w, cfg, row, level, ds) ==
    LET name == WsCell(w, row, cfg.data_name_column)
    IN  IF name = PyNone
        THEN d
        ELSE LET cp == DfParents(d.current_parents, level, name)
             IN  [ current_parents |-> cp,
                   all_data |-> d.all_data \o
                       DfRowValues(w, cfg, row, ds, Len(ds), name, DfParent(cp, level), level) ]

(***************************************************************************)
(* The programs as functions of the sheet and the configuration: the same  *)
(* loop bodies, iterated.                                                  *)
(***************************************************************************)
\* hierarchy_mapper: dates after the header cells up to column c
RECURSIVE HmDates(_, _, _)
HmDates(w, cfg, c) ==
    IF c < cfg.data_start_column THEN <<>>
    ELSE HmHeaderCell(HmDates(w, cfg, c - 1), WsCell(w, cfg.date_row, c))

\* hierarchy_mapper: assets_data after j iterations of the section loop
RECURSIVE HmData(_, _, _, _)
HmData(w, cfg, ds, j) ==
    IF j = 0 THEN <<>>
    ELSE HmSectionRow(HmData(w, cfg, ds, j - 1), w, cfg, cfg.assets_row + j - 1,
                      cfg.assets_hierarchy[j], ds)

\* build_section_hierarchy after j iterations of `for node in nodes`
RECURSIVE HmBuild(_, _)
HmBuild(data, j) ==
    IF j = 0 THEN BuildInit(Len(data))
    ELSE BuildStep(HmBuild(data, j - 1), j, data[j].hierarchy_level)

\* the node dict of build_section_hierarchy with its children nested; rows below
\* `cut` are renumbered one up (cut = 0: ids as they are)
RECURSIVE HmNode(_, _, _, _)
HmNode(data, ch, node, cut) ==
    [ id |-> IF cut > 0 /\ data[node].row > cut THEN data[node].row - 1 ELSE data[node].row,
      name |-> data[node].name,
      is |-> data[node].is,
      en |-> data[node].en,
      level |-> data[node].hierarchy_level,
      values |-> data[node].values,
      children |-> [i \in 1..Len(ch[node]) |-> HmNode(data, ch, ch[node][i], cut)] ]

HmTree(data, roots, ch, cut) == [i \in 1..Len(roots) |-> HmNode(data, ch, roots[i], cut)]

\* extract_hierarchy_data(...)["assets"]
HmAssets(w, cfg, cut) ==
    LET ds == HmDates(w, cfg, w.max_column)
        data == HmData(w, cfg, ds, Len(cfg.assets_hierarchy))
        b == HmBuild(data, Len(data))
    IN  HmTree(data, b.root_nodes, b.children, cut)

\* extract_json: dates after the header cells up to 0-based column c
RECURSIVE EjDates(_, _, _)
EjDates(w, cfg, c) ==
    IF c < cfg.data_start_column - 1 THEN <<>>
    ELSE EjHeaderCell(EjDates(w, cfg, c - 1), DfIloc(w, cfg.date_row - 1, c))

\* the state of a parse_section that raised
EjRaised == [ stack |-> <<>>, nodes |-> <<>>, children |-> [i \in {0} |-> <<>>] ]

\* parse_section after j iterations of `for level in hierarchy_levels`
RECURSIVE EjParse(_, _, _, _)
EjParse(w, cfg, ds, j) ==
    IF j = 0 THEN EjInit
    ELSE LET p == EjParse(w, cfg, ds, j - 1)
             current_row == cfg.assets_row - 1 + (j - 1)
         IN  IF p = EjRaised \/ current_row >= DfRows(w) THEN EjRaised
             ELSE IF ~NotNa(DfIloc(w, current_row, cfg.data_name_column - 1)) THEN p
             ELSE IF EjPop(p.stack, cfg.assets_hierarchy[j]) = <<>> THEN EjRaised
             ELSE EjSectionRow(p, w, cfg, current_row, cfg.assets_hierarchy[j], ds)

\* the node dict of parse_section with its children nested
RECURSIVE EjNested(_, _, _)
EjNested(nodes, ch, id) ==
    [ name |-> nodes[id].name,
      is |-> nodes[id].is,
      en |-> nodes[id].en,
      values |-> nodes[id].values,
      children |-> [i \in 1..Len(ch[id]) |-> EjNested(nodes, ch, ch[id][i])] ]

EjTree(nodes, ch) == [i \in 1..Len(ch[0]) |-> EjNested(nodes, ch, ch[0][i])]

\* extract_nested_json(...)["data"]["assets"]["children"]
EjAssets(w, cfg) ==
    LET p == EjParse(w, cfg, EjDates(w, cfg, DfCols(w) - 1), Len(cfg.assets_hierarchy))
    IN  EjTree(p.nodes, p.children)

\* dataframe_parser: dates after the header cells up to column c
RECURSIVE DfDates(_, _, _)
DfDates(w, cfg, c) ==
    IF c < cfg.data_start_column THEN <<>>
    ELSE DfHeaderCell(DfDates(w, cfg, c - 1), WsCell(w, cfg.date_row, c))

\* dataframe_parser: current_parents and all_data after j iterations
RECURSIVE DfData(_, _, _, _)
DfData(w, cfg, ds, j) ==
    IF j = 0 THEN [current_parents |-> <<>>, all_data |-> <<>>]
    ELSE DfSectionRow(DfData(w, cfg, ds, j - 1), w, cfg, cfg.assets_row + j - 1,
                      cfg.assets_hierarchy[j], ds)

\* the rows collected by parse_excel_to_dataframe before the frame is built
DfAllData(w, cfg) ==
    DfData(w, cfg, DfDates(w, cfg, w.max_column), Len(cfg.assets_hierarchy)).all_data

(***************************************************************************)
(* The programs as state machines.                                         *)
(***************************************************************************)
Hierarchy == banking_config.assets_hierarchy
LiabilitiesHierarchy == banking_config.liabilities_hierarchy

\* the state of ExcelSheetParser.detect_hierarchy
Detect == << in_assets, hierarchy_stack, detected >>

\* the state of download_subcategory_data
Download == << yaml_data, files, matches, match_pos, link_pos, downloaded_files,
               failed_downloads, writes >>

HmUnchanged == UNCHANGED << stack, result, current_parents, all_data, df, readable, Detect,
                            Download >>
EjUnchanged == UNCHANGED << assets_data, node_pos, root_nodes, node_map, children,
                            current_parents, all_data, df,
                            liab_pos, liabilities_data, liabilities_build, readable, Detect,
                            Download >>
DfUnchanged == UNCHANGED << assets_data, node_pos, root_nodes, node_map, children,
                            stack, result, liabilities_data, liabilities_build, readable,
                            Detect, Download >>
\* the state of the liabilities pass and of the second build
Liabilities == << liab_pos, liabilities_data, liabilities_build >>
Input == << prog, ws, banking_config, template, data_region >>

\* hierarchy_mapper.py 36-48
HmHeaderScan ==
    /\ prog = "hierarchy_mapper" /\ pc = "header"
    /\ col <= ws.max_column
    /\ dates' = HmHeaderCell(dates, WsCell(ws, banking_config.date_row, col))
    /\ col' = col + 1
    /\ UNCHANGED << Input, pc, level_pos, row_index, assets_data, node_pos, root_nodes,
                    node_map, children >>
    /\ UNCHANGED Liabilities
    /\ HmUnchanged

\* hierarchy_mapper.py 51-53: the header loop is over, the assets pass starts
HmHeaderDone ==
    /\ prog = "hierarchy_mapper" /\ pc = "header"
    /\ col > ws.max_column
    /\ pc' = "assets"
    /\ row_index' = banking_config.assets_row
    /\ level_pos' = 1
    /\ UNCHANGED << Input, col, dates, assets_data, node_pos, root_nodes, node_map, children >>
    /\ UNCHANGED Liabilities
    /\ HmUnchanged

\* hierarchy_mapper.py 53-87
HmAssetsRow ==
    /\ prog = "hierarchy_mapper" /\ pc = "assets"
    /\ level_pos <= Len(Hierarchy)
    /\ assets_data' = HmSectionRow(assets_data, ws, banking_config, row_index,
                                   Hierarchy[level_pos], dates)
    /\ row_index' = row_index + 1
    /\ level_pos' = level_pos + 1
    /\ UNCHANGED << Input, pc, col, dates, node_pos, root_nodes, node_map, children >>
    /\ UNCHANGED Liabilities
    /\ HmUnchanged

\* hierarchy_mapper.py 90-92: the liabilities pass starts
HmLiabilitiesStart ==
    /\ prog = "hierarchy_mapper" /\ pc = "assets"
    /\ level_pos > Len(Hierarchy)
    /\ LiabilitiesHierarchy # <<>>
    /\ pc' = "liabilities"
    /\ row_index' = banking_config.liabilities_row
    /\ liab_pos' = 1
    /\ liabilities_data' = <<>>
    /\ UNCHANGED << Input, col, dates, level_pos, assets_data, node_pos, root_nodes, node_map,
                    children, liabilities_build >>
    /\ HmUnchanged

\* hierarchy_mapper.py 92-126
HmLiabilitiesRow ==
    /\ prog = "hierarchy_mapper" /\ pc = "liabilities"
    /\ liab_pos <= Len(LiabilitiesHierarchy)
    /\ liabilities_data' = HmSectionRow(liabilities_data, ws, banking_config, row_index,
                                        LiabilitiesHierarchy[liab_pos], dates)
    /\ row_index' = row_index + 1
    /\ liab_pos' = liab_pos + 1
    /\ UNCHANGED << Input, pc, col, dates, level_pos, assets_data, node_pos, root_nodes,
                    node_map, children, liabilities_build >>
    /\ HmUnchanged

\* hierarchy_mapper.py 129, 140, 148-165: build_section_hierarchy(assets_data) starts
\* once the liabilities loop is over (at once when it has no level to iterate)
HmBuildStart ==
    /\ prog = "hierarchy_mapper"
    /\ \/ pc = "assets" /\ level_pos > Len(Hierarchy) /\ LiabilitiesHierarchy = <<>>
       \/ pc = "liabilities" /\ liab_pos > Len(LiabilitiesHierarchy)
    /\ pc' = "build"
    /\ node_pos' = 1
    /\ root_nodes' = BuildInit(Len(assets_data)).root_nodes
    /\ node_map' = BuildInit(Len(assets_data)).node_map
    /\ children' = BuildInit(Len(assets_data)).children
    /\ UNCHANGED << Input, col, dates, level_pos, row_index, assets_data >>
    /\ UNCHANGED Liabilities
    /\ HmUnchanged

\* hierarchy_mapper.py 167-186
HmBuildNode ==
    /\ prog = "hierarchy_mapper" /\ pc = "build"
    /\ node_pos <= Len(assets_data)
    /\ LET b == BuildStep([root_nodes |-> root_nodes, node_map |-> node_map,
                           children |-> children],
                          node_pos, assets_data[node_pos].hierarchy_level)
       IN  /\ root_nodes' = b.root_nodes
           /\ node_map' = b.node_map
           /\ children' = b.children
    /\ node_pos' = node_pos + 1
    /\ UNCHANGED << Input, pc, col, dates, level_pos, row_index, assets_data >>
    /\ UNCHANGED Liabilities
    /\ HmUnchanged

\* hierarchy_mapper.py 188, 141: the assets tree is returned; of an empty
\* liabilities_data the second call returns the empty list at once
HmBuildDone ==
    /\ prog = "hierarchy_mapper" /\ pc = "build"
    /\ node_pos > Len(assets_data)
    /\ liabilities_data = <<>>
    /\ pc' = "done"
    /\ UNCHANGED << Input, col, dates, level_pos, row_index, assets_data, node_pos,
                    root_nodes, node_map, children >>
    /\ UNCHANGED Liabilities
    /\ HmUnchanged

\* hierarchy_mapper.py 188, 141, 148-165: the assets tree is returned and
\* build_section_hierarchy(liabilities_data) starts
HmBuildLiabilitiesStart ==
    /\ prog = "hierarchy_mapper" /\ pc = "build"
    /\ node_pos > Len(assets_data)
    /\ liabilities_data # <<>>
    /\ pc' = "build_liabilities"
    /\ liabilities_build' = [ root_nodes |-> BuildInit(Len(liabilities_data)).root_nodes,
                              node_map |-> BuildInit(Len(liabilities_data)).node_map,
                              children |-> BuildInit(Len(liabilities_data)).children,
                              node_pos |-> 1 ]
    /\ UNCHANGED << Input, col, dates, level_pos, row_index, assets_data, node_pos,
                    root_nodes, node_map, children, liab_pos, liabilities_data >>
    /\ HmUnchanged

\* hierarchy_mapper.py 167-186, on the liabilities nodes
HmBuildLiabilitiesNode ==
    /\ prog = "hierarchy_mapper" /\ pc = "build_liabilities"
    /\ liabilities_build.node_pos <= Len(liabilities_data)
    /\ LET b == BuildStep([root_nodes |-> liabilities_build.root_nodes,
                           node_map |-> liabilities_build.node_map,
                           children |-> liabilities_build.children],
                          liabilities_build.node_pos,
                          liabilities_data[liabilities_build.node_pos].hierarchy_level)
       IN  liabilities_build' = [ root_nodes |-> b.root_nodes, node_map |-> b.node_map,
                                  children |-> b.children,
                                  node_pos |-> liabilities_build.node_pos + 1 ]
    /\ UNCHANGED << Input, pc, col, dates, level_pos, row_index, assets_data, node_pos,
                    root_nodes, node_map, children, liab_pos, liabilities_data >>
    /\ HmUnchanged

\* hierarchy_mapper.py 188, 143: the liabilities tree and then the result are returned
HmBuildLiabilitiesDone ==
    /\ prog = "hierarchy_mapper" /\ pc = "build_liabilities"
    /\ liabilities_build.node_pos > Len(liabilities_data)
    /\ pc' = "done"
    /\ UNCHANGED << Input, col, dates, level_pos, row_index, assets_data, node_pos,
                    root_nodes, node_map, children >>
    /\ UNCHANGED Liabilities
    /\ HmUnchanged

\* extract_json.py 19-25 (col is 0-based)
EjHeaderScan ==
    /\ prog = "extract_json" /\ pc = "header"
    /\ col < DfCols(ws)
    /\ dates' = EjHeaderCell(dates, DfIloc(ws, banking_config.date_row - 1, col))
    /\ col' = col + 1
    /\ UNCHANGED << Input, pc, level_pos, row_index, stack, result >>
    /\ EjUnchanged

\* extract_json.py 89-94, 29-35: parse_section(assets_row, assets_hierarchy, ...) starts
EjHeaderDone ==
    /\ prog = "extract_json" /\ pc = "header"
    /\ col >= DfCols(ws)
    /\ pc' = "assets"
    /\ row_index' = banking_config.assets_row - 1
    /\ level_pos' = 1
    /\ stack' = EjInit.stack
    /\ result' = [nodes |-> EjInit.nodes, children |-> EjInit.children]
    /\ UNCHANGED << Input, col, dates >>
    /\ EjUnchanged

\* extract_json.py 36-84; df.iloc[current_row] raises beyond the frame, stack[-1]
\* raises on an emptied stack
EjAssetsRow ==
    /\ prog = "extract_json" /\ pc = "assets"
    /\ level_pos <= Len(Hierarchy)
    /\ IF row_index >= DfRows(ws)
       THEN pc' = "error" /\ UNCHANGED << row_index, level_pos, stack, result >>
       ELSE IF ~NotNa(DfIloc(ws, row_index, banking_config.data_name_column - 1))
       THEN /\ row_index' = row_index + 1
            /\ level_pos' = level_pos + 1
            /\ UNCHANGED << pc, stack, result >>
       ELSE IF EjPop(stack, Hierarchy[level_pos]) = <<>>
       THEN pc' = "error" /\ UNCHANGED << row_index, level_pos, stack, result >>
       ELSE LET p == EjSectionRow([stack |-> stack, nodes |-> result.nodes,
                                   children |-> result.children],
                                  ws, banking_config, row_index, Hierarchy[level_pos], dates)
            IN  /\ stack' = p.stack
                /\ result' = [nodes |-> p.nodes, children |-> p.children]
                /\ row_index' = row_index + 1
                /\ level_pos' = level_pos + 1
                /\ pc' = pc
    /\ UNCHANGED << Input, col, dates >>
    /\ EjUnchanged

\* extract_json.py 86: return result
EjAssetsDone ==
    /\ prog = "extract_json" /\ pc = "assets"
    /\ level_pos > Len(Hierarchy)
    /\ pc' = "done"
    /\ UNCHANGED << Input, col, dates, level_pos, row_index, stack, result >>
    /\ EjUnchanged

\* dataframe_parser.py 35-47
DfHeaderScan ==
    /\ prog = "dataframe_parser" /\ pc = "header"
    /\ col <= ws.max_column
    /\ dates' = DfHeaderCell(dates, WsCell(ws, banking_config.date_row, col))
    /\ col' = col + 1
    /\ UNCHANGED << Input, pc, level_pos, row_index, current_parents, all_data, df, liab_pos >>
    /\ DfUnchanged

\* dataframe_parser.py 50-57
DfHeaderDone ==
    /\ prog = "dataframe_parser" /\ pc = "header"
    /\ col > ws.max_column
    /\ pc' = "assets"
    /\ row_index' = banking_config.assets_row
    /\ level_pos' = 1
    /\ current_parents' = <<>>
    /\ all_data' = <<>>
    /\ UNCHANGED << Input, col, dates, df, liab_pos >>
    /\ DfUnchanged

\* dataframe_parser.py 57-114
DfAssetsRow ==
    /\ prog = "dataframe_parser" /\ pc = "assets"
    /\ level_pos <= Len(Hierarchy)
    /\ LET d == DfSectionRow([current_parents |-> current_parents, all_data |-> all_data],
                             ws, banking_config, row_index, Hierarchy[level_pos], dates)
       IN  /\ current_parents' = d.current_parents
           /\ all_data' = d.all_data
    /\ row_index' = row_index + 1
    /\ level_pos' = level_pos + 1
    /\ UNCHANGED << Input, pc, col, dates, df, liab_pos >>
    /\ DfUnchanged

\* DfLiabilitiesReset without the reset: the parents of the assets pass are kept
DfLiabilitiesKeep(cp) == cp

\* dataframe_parser.py 117: current_parents = {}
DfLiabilitiesReset(cp) == <<>>

\* the rows of a liabilities grid row: 'type': 'liability' (dataframe_parser.py 168)
DfLiabilityRows(rows) == [i \in 1..Len(rows) |-> [rows[i] EXCEPT !.type = "liability"]]

\* one iteration of `for level in liabilities_hierarchy`
DfLiabilitiesSectionRow(d, w, cfg, row, level, ds) ==
    LET after == DfSectionRow([current_parents |-> d.current_parents, all_data |-> <<>>],
                              w, cfg, row, level, ds)
    IN  [ current_parents |-> after.current_parents,
          all_data |-> d.all_data \o DfLiabilityRows(after.all_data) ]

\* dataframe_parser.py 116-120: the liabilities pass starts
DfLiabilitiesStart ==
    /\ prog = "dataframe_parser" /\ pc = "assets"
    /\ level_pos > Len(Hierarchy)
    /\ LiabilitiesHierarchy # <<>>
    /\ pc' = "liabilities"
    /\ current_parents' = DfLiabilitiesReset(current_parents)
    /\ row_index' = banking_config.liabilities_row
    /\ liab_pos' = 1
    /\ UNCHANGED << Input, col, dates, level_pos, all_data, df >>
    /\ DfUnchanged

\* dataframe_parser.py 120-177
DfLiabilitiesRow ==
    /\ prog = "dataframe_parser" /\ pc = "liabilities"
    /\ liab_pos <= Len(LiabilitiesHierarchy)
    /\ LET d == DfLiabilitiesSectionRow(
                    [current_parents |-> current_parents, all_data |-> all_data],
                    ws, banking_config, row_index, LiabilitiesHierarchy[liab_pos], dates)
       IN  /\ current_parents' = d.current_parents
           /\ all_data' = d.all_data
    /\ row_index' = row_index + 1
    /\ liab_pos' = liab_pos + 1
    /\ UNCHANGED << Input, pc, col, dates, level_pos, df >>
    /\ DfUnchanged

(***************************************************************************)
(* dataframe_parser: df.sort_values(['date', 'type', 'name'])              *)
(***************************************************************************)
Ascii == << " ", "-", "/", "0", "1", "2", "3", "4", "5", "6", "7", "8", "9", ":", ">",
            "A", "B", "C", "D", "E", "F", "G", "H", "I", "J", "K", "L", "M", "N", "O",
            "P", "Q", "R", "S", "T", "U", "V", "W", "X", "Y", "Z",
            "a", "b", "c", "d", "e", "f", "g", "h", "i", "j", "k", "l", "m", "n", "o",
            "p", "q", "r", "s", "t", "u", "v", "w", "x", "y", "z" >>
Ord(ch) == CHOOSE i \in 1..Len(Ascii) : Ascii[i] = ch

\* a < b for two texts: the order of Python strings
RECURSIVE TextLess(_, _)
TextLess(a, b) ==
    IF b = <<>> THEN FALSE
    ELSE IF a = <<>> THEN TRUE
    ELSE IF a[1] # b[1] THEN Ord(a[1]) < Ord(b[1])
    ELSE TextLess(Tail(a), Tail(b))

\* the sort key (date, type, name) of x is below that of y
RowLess(x, y) ==
    IF x.date # y.date
    THEN x.date.n < y.date.n \/ (x.date.n = y.date.n /\ TextLess(x.date.s, y.date.s))
    ELSE IF x.type # y.type
    THEN (x.type = "asset")
    ELSE TextLess(x.name.s, y.name.s)

\* stable insertion of x into the sorted rows
RECURSIVE SortInsert(_, _)
SortInsert(rows, x) ==
    IF rows = <<>> THEN << x >>
    ELSE IF RowLess(x, rows[Len(rows)])
         THEN Append(SortInsert(SubSeq(rows, 1, Len(rows) - 1), x), rows[Len(rows)])
         ELSE Append(rows, x)

RECURSIVE SortValues(_)
SortValues(rows) ==
    IF rows = <<>> THEN <<>>
    ELSE SortInsert(SortValues(SubSeq(rows, 1, Len(rows) - 1)), rows[Len(rows)])

\* dataframe_parser.py 179-185; a frame built from no rows has no 'date' column and
\* sort_values raises KeyError
DfReturn ==
    /\ prog = "dataframe_parser"
    /\ \/ pc = "assets" /\ level_pos > Len(Hierarchy) /\ LiabilitiesHierarchy = <<>>
       \/ pc = "liabilities" /\ liab_pos > Len(LiabilitiesHierarchy)
    /\ IF all_data = <<>>
       THEN pc' = "error" /\ df' = df
       ELSE pc' = "done" /\ df' = SortValues(all_data)
    /\ UNCHANGED << Input, col, dates, level_pos, row_index, current_parents, all_data,
                    liab_pos >>
    /\ DfUnchanged

(***************************************************************************)
(* openpyxl_parser.ExcelSheetParser.extract_dates_from_header              *)
(***************************************************************************)
SampleMonths == 24

\* one iteration of the header loop
OpHeaderCell(ds, cell_value) ==
    IF cell_value = PyNone
    THEN ds
    ELSE LET date_value == IF cell_value.k = "datetime" THEN cell_value
                           ELSE ToDatetime(cell_value)
         IN  IF date_value # PyNone THEN Append(ds, date_value) ELSE ds

\* the i-th sample date, oldest first: end_date - DateOffset(months = SampleMonths - i)
SampleDate(i) == PyDatetime(0 - (SampleMonths - i), <<"n","o","w">>)

\* OpReturn without the template and sample fallbacks
OpReturnNoFallback(ds, tpl) == [raised |-> FALSE, dates |-> ds]

\* what the method returns once the header loop is over; it raises where
\* pd.to_datetime(d) raises on a template date
OpReturn(ds, tpl) ==
    IF ds = <<>> /\ tpl.present /\ tpl.sheet_matches /\ tpl.dates # <<>>
    THEN IF \E i \in 1..Len(tpl.dates) : ToDatetime(PyText(tpl.dates[i])) = PyNone
         THEN [raised |-> TRUE, dates |-> ds]
         ELSE [raised |-> FALSE,
               dates |-> [i \in 1..Len(tpl.dates) |-> ToDatetime(PyText(tpl.dates[i]))]]
    ELSE IF ds = <<>>
    THEN [raised |-> FALSE, dates |-> [i \in 1..SampleMonths |-> SampleDate(i)]]
    ELSE [raised |-> FALSE, dates |-> ds]

OpUnchanged == UNCHANGED << level_pos, row_index, assets_data, node_pos, root_nodes,
                            node_map, children, stack, result, current_parents,
                            all_data, df, liab_pos, liabilities_data, liabilities_build,
                            readable, Detect, Download >>

\* openpyxl_parser.py 119-142
OpHeaderScan ==
    /\ prog = "openpyxl_parser" /\ pc = "header"
    /\ col <= ws.max_column
    /\ dates' = OpHeaderCell(dates, WsCell(ws, data_region.start_row - 1, col))
    /\ col' = col + 1
    /\ UNCHANGED << Input, pc >>
    /\ OpUnchanged

\* openpyxl_parser.py 144-163
OpHeaderDone ==
    /\ prog = "openpyxl_parser" /\ pc = "header"
    /\ col > ws.max_column
    /\ pc' = IF OpReturn(dates, template).raised THEN "error" ELSE "done"
    /\ dates' = OpReturn(dates, template).dates
    /\ UNCHANGED << Input, col >>
    /\ OpUnchanged

(***************************************************************************)
(* hierarchy_mapper.extract_readable_hierarchy.  A dict is the sequence of *)
(* its items [key, entry] in insertion order.                              *)
(***************************************************************************)
Digits == << "0", "1", "2", "3", "4", "5", "6", "7", "8", "9" >>

\* str(i) of a non-negative int
RECURSIVE Str(_)
Str(i) == IF i < 10 THEN << Digits[i + 1] >> ELSE Str(i \div 10) \o << Digits[(i % 10) + 1] >>

\* JoinDot keeping the last position only
JoinDotLast(path) == IF path = <<>> THEN <<>> ELSE Str(path[Len(path)])

\* ".".join(map(str, current_path))
RECURSIVE JoinDot(_)
JoinDot(path) ==
    IF path = <<>> THEN <<>>
    ELSE IF Len(path) = 1 THEN Str(path[1])
    ELSE JoinDot(SubSeq(path, 1, Len(path) - 1)) \o << "." >> \o Str(path[Len(path)])

\* result[key] = entry: a new key goes to the end, a known key keeps its place
DictSet(d, key, entry) ==
    IF \E i \in 1..Len(d) : d[i].key = key
    THEN [i \in 1..Len(d) |-> IF d[i].key = key THEN [key |-> key, entry |-> entry] ELSE d[i]]
    ELSE Append(d, [key |-> key, entry |-> entry])

\* result.update(other)
RECURSIVE DictUpdate(_, _)
DictUpdate(d, other) ==
    IF other = <<>> THEN d
    ELSE DictUpdate(DictSet(d, other[1].key, other[1].entry), Tail(other))

\* prefix + (name if not prefix else " > " + name)
FullPath(prefix, name) ==
    IF prefix = <<>> THEN name ELSE prefix \o << " ", ">", " " >> \o name

\* extract_readable_hierarchy(hierarchy, prefix, path) after the first k items of
\* hierarchy; the tree is given by section_data and the children lists
RECURSIVE ReadableUpTo(_, _, _, _, _, _)
ReadableUpTo(data, ch, hierarchy, prefix, path, k) ==
    IF k = 0 THEN <<>>
    ELSE LET prev == ReadableUpTo(data, ch, hierarchy, prefix, path, k - 1)
             item == data[hierarchy[k]]
             i == k - 1
             current_path == Append(path, i)
             entry == [ id |-> item.row,
                        name |-> item.name,
                        is |-> item.is,
                        en |-> item.en,
                        path |-> current_path,
                        level |-> Len(current_path),
                        hierarchy_level |-> item.hierarchy_level,
                        index |-> i,
                        full_path |-> FullPath(prefix, item.name) ]
             own == DictSet(prev, JoinDot(current_path), entry)
             kids == ch[hierarchy[k]]
         IN  IF kids # <<>>
             THEN DictUpdate(own, ReadableUpTo(data, ch, kids, FullPath(prefix, item.name),
                                               current_path, Len(kids)))
             ELSE own

extract_readable_hierarchy(data, ch, hierarchy) ==
    ReadableUpTo(data, ch, hierarchy, <<>>, <<>>, Len(hierarchy))

\* hierarchy_mapper.py 196-215: map_test_schema_to_hierarchy maps both trees
HmReadable ==
    /\ prog = "hierarchy_mapper" /\ pc = "done"
    /\ pc' = "mapped"
    /\ readable' = [ assets |-> extract_readable_hierarchy(assets_data, children, root_nodes),
                     liabilities |-> extract_readable_hierarchy(liabilities_data,
                                         liabilities_build.children,
                                         liabilities_build.root_nodes) ]
    /\ UNCHANGED << Input, col, dates, level_pos, row_index, assets_data, node_pos,
                    root_nodes, node_map, children, Liabilities,
                    stack, result, current_parents, all_data, df, Detect, Download >>

(***************************************************************************)
(* Inputs.                                                                 *)
(***************************************************************************)
Letters == << "A", "B", "C", "D", "E", "F", "G", "H", "I", "J" >>

NoTemplate == [present |-> FALSE, sheet_matches |-> FALSE, dates |-> <<>>]
DefaultRegion == [start_row |-> 2, title_col |-> 1, data_start_col |-> 2]

Config(hierarchy) ==
    [ date_row |-> 1, data_start_column |-> 2, data_name_column |-> 1,
      assets_row |-> 2, assets_hierarchy |-> hierarchy,
      liabilities_row |-> 2 + Len(hierarchy), liabilities_hierarchy |-> <<>> ]

LevelLists == UNION { [1..n -> 1..MaxLevel] : n \in 0..MaxRows }

\* a sheet with the header row `header` (from column 2 on) and, below it, the rows
\* whose name cells are `names` and whose data cells are `cells`
Sheet(header, names, cells) ==
    [ max_row |-> 1 + Len(names),
      max_column |-> 1 + Len(header),
      cell |-> [r \in 1..(1 + Len(names)) |-> [c \in 1..(1 + Len(header)) |->
                  IF r = 1 THEN (IF c = 1 THEN PyNone ELSE header[c - 1])
                  ELSE IF c = 1 THEN names[r - 1]
                  ELSE cells[r - 1][c - 1]]] ]

\* the sheet of a tree scenario: two periods, every row carrying 10 and 20, the rows
\* of `blank` without a name
TreeSheet(blank) ==
    Sheet(<< PyText(T_2024_01), PyText(T_2024_02) >>,
          [r \in 1..(MaxRows + 1) |-> IF r \in blank THEN PyNone ELSE PyText(<< Letters[r] >>)],
          [r \in 1..(MaxRows + 1) |-> << PyInt(10), PyInt(20) >>])

HeaderCells == { PyNone, PyDatetime(1, T_midnight), PyDatetime(1, T_noon),
                 PyDatetime(2, T_midnight), PyText(T_2024_02), PyText(T_Total) }
DataCells == { PyNone, PyInt(10), PyInt(0), PyText(T_na), PyBool(1) }

Start(p) ==
    /\ prog = p
    /\ pc = "header"
    /\ col = IF p = "extract_json" THEN banking_config.data_start_column - 1
             ELSE IF p = "openpyxl_parser" THEN data_region.data_start_col
             ELSE banking_config.data_start_column
    /\ dates = <<>>
    /\ level_pos = 0 /\ row_index = 0
    /\ assets_data = <<>> /\ node_pos = 0 /\ root_nodes = <<>> /\ node_map = <<>>
    /\ children = <<>>
    /\ stack = <<>> /\ result = [nodes |-> <<>>, children |-> <<>>]
    /\ current_parents = <<>> /\ all_data = <<>> /\ df = <<>>
    /\ liab_pos = 0 /\ liabilities_data = <<>>
    /\ liabilities_build = [root_nodes |-> <<>>, node_map |-> <<>>, children |-> <<>>,
                             node_pos |-> 0]
    /\ readable = [assets |-> <<>>, liabilities |-> <<>>]
    /\ in_assets = TRUE /\ hierarchy_stack = <<>>
    /\ detected = [ nodes |-> <<>>, children |-> <<>>, assets |-> <<>>, liabilities |-> <<>>,
                    row |-> <<>>, level |-> <<>>, in_assets |-> <<>> ]
    /\ matches = <<>> /\ match_pos = 0 /\ link_pos = 0
    /\ downloaded_files = <<>> /\ failed_downloads = <<>> /\ writes = <<>>

\* no links file and no cache: the programs above read the worksheet only
NoDownload == yaml_data = <<>> /\ files = {}

\* tree scenarios: any level list, no blank row or one, anywhere
InitTree ==
    /\ \E h \in LevelLists : banking_config = Config(h)
    /\ \E blank \in {{}} \cup { {r} : r \in 1..(MaxRows + 1) } : ws = TreeSheet(blank)
    /\ template = NoTemplate
    /\ data_region = DefaultRegion
    /\ \E p \in {"hierarchy_mapper", "extract_json", "dataframe_parser"} : Start(p)
    /\ NoDownload

\* value scenarios: any header row, one row of any data cells
InitValues ==
    /\ banking_config = Config(<< 1 >>)
    /\ \E header \in [1..MaxCols -> HeaderCells], cells \in [1..MaxCols -> DataCells] :
          ws = Sheet(header, << PyText(<< "A" >>) >>, << cells >>)
    /\ template = NoTemplate
    /\ data_region = DefaultRegion
    /\ \E p \in {"hierarchy_mapper", "extract_json", "dataframe_parser"} : Start(p)
    /\ NoDownload

Templates ==
    { NoTemplate }
    \cup { [present |-> TRUE, sheet_matches |-> m, dates |-> d] :
             m \in BOOLEAN,
             d \in { <<>>, << T_2024_01 >>, << T_2024_01, T_2024_02 >>, << T_Total >> } }

\* header scenarios of ExcelSheetParser: any header row, any template
InitDates ==
    /\ banking_config = Config(<< 1 >>)
    /\ \E header \in [1..MaxCols -> HeaderCells \cup {PyInt(0), PyBool(1)}] :
          ws = Sheet(header, << PyText(<< "A" >>) >>, << [c \in 1..MaxCols |-> PyInt(10)] >>)
    /\ template \in Templates
    /\ data_region = DefaultRegion
    /\ Start("openpyxl_parser")
    /\ NoDownload

NextSections ==
    \/ HmHeaderScan \/ HmHeaderDone \/ HmAssetsRow \/ HmBuildStart \/ HmBuildNode
    \/ HmBuildDone \/ HmReadable
    \/ EjHeaderScan \/ EjHeaderDone \/ EjAssetsRow \/ EjAssetsDone
    \/ DfHeaderScan \/ DfHeaderDone \/ DfAssetsRow \/ DfReturn

NextDates == OpHeaderScan \/ OpHeaderDone

SpecTree == InitTree /\ [][NextSections]_vars
SpecValues == InitValues /\ [][NextSections]_vars
SpecDates == InitDates /\ [][NextDates]_vars

(***************************************************************************)
(* Properties.  Helpers read the input and the trees built so far.         *)
(***************************************************************************)
NameColumn(w, offset) == WsCell(w, banking_config.assets_row + offset - 1, 1)

\* offsets (1-based, from the section start) of the rows examined so far that
\* carry a name, in row order
RECURSIVE NamedOffsets(_, _)
NamedOffsets(w, n) ==
    IF n = 0 THEN <<>>
    ELSE IF NameColumn(w, n) # PyNone
         THEN Append(NamedOffsets(w, n - 1), n)
         ELSE NamedOffsets(w, n - 1)

Examined == IF pc = "header" THEN 0 ELSE level_pos - 1

\* declared level of the id-th node created (the id-th named row)
LevelOfNode(id) == Hierarchy[NamedOffsets(ws, Examined)[id]]

\* the children lists that hold node id
EjHolders(id) ==
    { p \in DOMAIN result.children :
        \E i \in 1..Len(result.children[p]) : result.children[p][i] = id }
EjTimesHeld(id) ==
    Cardinality({ << p, i >> \in (DOMAIN result.children) \X (1..MaxRows + 1) :
                    i <= Len(result.children[p]) /\ result.children[p][i] = id })

\* most recently created earlier node of strictly smaller level, 0 (the root) if none
NearestShallower(id) ==
    LET cands == { j \in 1..(id - 1) : LevelOfNode(j) < LevelOfNode(id) }
    IN  IF cands = {} THEN 0 ELSE Max(cands)

InParseSection == prog = "extract_json" /\ pc \in {"assets", "done"}

\* C1: parse_section appends every node to the children of the most recently
\* created earlier node of strictly smaller level, or to the section root when
\* there is none, also across level jumps of more than one
C1_NearestShallowerParent ==
    InParseSection =>
        \A id \in 1..Len(result.nodes) :
            /\ EjHolders(id) = { NearestShallower(id) }
            /\ EjTimesHeld(id) = 1
            /\ LET siblings == result.children[NearestShallower(id)]
               IN  \A i \in 1..Len(siblings) : \A j \in 1..Len(siblings) :
                      i < j => siblings[i] < siblings[j]

\* C1 witness: a level-3 node hangs directly under a level-1 node
C1_Witness ==
    /\ prog = "extract_json" /\ pc = "done"
    /\ \E id \in 1..Len(result.nodes) :
          /\ LevelOfNode(id) = 3
          /\ NearestShallower(id) # 0
          /\ LevelOfNode(NearestShallower(id)) = 1
          /\ id \in { result.children[NearestShallower(id)][i] :
                        i \in 1..Len(result.children[NearestShallower(id)]) }

\* nodes of the tree returned by build_section_hierarchy, depth-first
RECURSIVE HmPreorder(_, _)
HmPreorder(ch, nodes) ==
    IF nodes = <<>> THEN <<>>
    ELSE << nodes[1] >> \o HmPreorder(ch, ch[nodes[1]]) \o HmPreorder(ch, Tail(nodes))

HmTimesInTree(node) ==
    Cardinality({ i \in 1..Len(HmPreorder(children, root_nodes)) :
                    HmPreorder(children, root_nodes)[i] = node })

HmReturned == prog = "hierarchy_mapper" /\ pc = "done"

\* C2: build_section_hierarchy rejects no row: every entry of section_data
\* appears exactly once in the returned tree, also after a level jump
C2_EveryEntryInTree ==
    HmReturned => \A node \in 1..Len(assets_data) : HmTimesInTree(node) = 1

HmLevel(node) == assets_data[node].hierarchy_level

\* C3: the tree of build_section_hierarchy has no level gaps: roots have level
\* 1 and every other node is one level below its parent
C3_NoLevelGaps ==
    (prog = "hierarchy_mapper" /\ pc \in {"build", "done"}) =>
        /\ \A i \in 1..Len(root_nodes) : HmLevel(root_nodes[i]) = 1
        /\ \A parent \in DOMAIN children : \A i \in 1..Len(children[parent]) :
              HmLevel(children[parent][i]) = HmLevel(parent) + 1

\* C3 witness: a returned tree three levels deep built from a list with a jump
C3_Witness ==
    /\ HmReturned
    /\ \E node \in 1..Len(assets_data) : HmTimesInTree(node) = 0
    /\ \E a \in DOMAIN children : \E i \in 1..Len(children[a]) :
          children[children[a][i]] # <<>>

\* the tree of the running program: roots, children, level and values of a node
Roots == IF prog = "hierarchy_mapper" THEN root_nodes ELSE result.children[0]
Kids(n) == IF prog = "hierarchy_mapper" THEN children[n] ELSE result.children[n]
Lvl(n) == IF prog = "hierarchy_mapper" THEN HmLevel(n) ELSE LevelOfNode(n)
Vals(n) == IF prog = "hierarchy_mapper" THEN assets_data[n].values ELSE result.nodes[n].values
Created == IF prog = "hierarchy_mapper" THEN Len(assets_data) ELSE Len(result.nodes)
KidsAt(n, l) == { i \in 1..Len(Kids(n)) : Lvl(Kids(n)[i]) = l }

\* five named rows of levels 1,2,3,2,1, two periods, 10 and 20 in every row
Scenario12321 ==
    /\ prog \in {"hierarchy_mapper", "extract_json"} /\ pc = "done"
    /\ Hierarchy = << 1, 2, 3, 2, 1 >>
    /\ \A r \in 1..5 : NameColumn(ws, r) # PyNone

ValuesAre(v, first, second) ==
    /\ DOMAIN v = { first, second }
    /\ v[first].k \in {"int", "float"} /\ v[first].n = 10
    /\ v[second].k \in {"int", "float"} /\ v[second].n = 20

\* C4 as stated: the first root has exactly one level-2 child, and every values map
\* is {"2024-01": 10, "2024-02": 20}
C4_AsStated ==
    Scenario12321 =>
        /\ Len(Roots) = 2 /\ Lvl(Roots[1]) = 1 /\ Lvl(Roots[2]) = 1
        /\ Cardinality(KidsAt(Roots[1], 2)) = 1
        /\ \A i \in KidsAt(Roots[1], 2) : Cardinality(KidsAt(Kids(Roots[1])[i], 3)) = 1
        /\ Kids(Roots[2]) = <<>>
        /\ \A n \in 1..Created : ValuesAre(Vals(n), T_2024_01, T_2024_02)

\* C4 amended: levels [1,2,3,2,1] give two level-1 roots; the first root has exactly
\* two level-2 children (rows 2 and 4), the first with exactly one level-3 child and
\* the second with none; the second root has no children; every values map holds 10
\* and 20 under the two period labels, "2024-01"/"2024-02" in parse_section and
\* "2024-01-01"/"2024-02-01" in hierarchy_mapper, which formats every period
C4_TwoLevel2Children ==
    Scenario12321 =>
        /\ Len(Roots) = 2 /\ Lvl(Roots[1]) = 1 /\ Lvl(Roots[2]) = 1
        /\ Len(Kids(Roots[1])) = 2 /\ KidsAt(Roots[1], 2) = {1, 2}
        /\ Len(Kids(Kids(Roots[1])[1])) = 1 /\ KidsAt(Kids(Roots[1])[1], 3) = {1}
        /\ Kids(Kids(Kids(Roots[1])[1])[1]) = <<>>
        /\ Kids(Kids(Roots[1])[2]) = <<>>
        /\ Kids(Roots[2]) = <<>>
        /\ Created = 5
        /\ \A n \in 1..Created :
              IF prog = "extract_json"
              THEN ValuesAre(Vals(n), T_2024_01, T_2024_02)
              ELSE ValuesAre(Vals(n), T_2024_01 \o <<"-","0","1">>, T_2024_02 \o <<"-","0","1">>)

\* C4 witness: hierarchy_mapper has returned the tree of the scenario
C4_Witness == Scenario12321 /\ prog = "hierarchy_mapper" /\ Len(root_nodes) = 2

\* the sheet without row r, the rows below it moved up
DeleteRow(w, r) ==
    [ max_row |-> w.max_row - 1,
      max_column |-> w.max_column,
      cell |-> [x \in 1..(w.max_row - 1) |-> IF x < r THEN w.cell[x] ELSE w.cell[x + 1]] ]

\* the configuration without the p-th entry of the level list
DeleteLevel(cfg, p) ==
    [ cfg EXCEPT !.assets_hierarchy =
        SubSeq(cfg.assets_hierarchy, 1, p - 1)
            \o SubSeq(cfg.assets_hierarchy, p + 1, Len(cfg.assets_hierarchy)) ]

\* offsets of the blank-name rows inside the section's row run
BlankOffsets == { p \in 1..Len(Hierarchy) : NameColumn(ws, p) = PyNone }
SheetRow(p) == banking_config.assets_row + p - 1

Finished ==
    \/ prog \in {"hierarchy_mapper", "extract_json"} /\ pc = "done"
    \/ prog = "dataframe_parser" /\ pc \in {"done", "error"}

\* the output of the finished run, and the output for another sheet and configuration
Output(cut) ==
    CASE prog = "hierarchy_mapper" -> HmTree(assets_data, root_nodes, children, cut)
      [] prog = "extract_json" -> EjTree(result.nodes, result.children)
      [] OTHER -> all_data
OutputFor(w, cfg) ==
    CASE prog = "hierarchy_mapper" -> HmAssets(w, cfg, 0)
      [] prog = "extract_json" -> EjAssets(w, cfg)
      [] OTHER -> DfAllData(w, cfg)

\* C5 as stated: with the level list held fixed, the run over a sheet with a blank
\* row gives the tree of the run over the sheet with that row deleted
C5_AsStated ==
    Finished =>
        \A p \in BlankOffsets :
            Output(0) = OutputFor(DeleteRow(ws, SheetRow(p)), banking_config)

\* C5 amended: a blank-name row consumes its own entry of the level list, so the run
\* over a sheet with a blank row at offset p gives the output of the run over the
\* sheet with that row deleted and the p-th level deleted with it; the trees of
\* parse_section and the rows of parse_excel_to_dataframe are identical, the tree of
\* hierarchy_mapper is identical but for the ids "row_<n>" of the rows below p, which
\* are one higher
C5_BlankRowWithItsLevel ==
    Finished =>
        \A p \in BlankOffsets :
            /\ Output(SheetRow(p))
                 = OutputFor(DeleteRow(ws, SheetRow(p)), DeleteLevel(banking_config, p))
            /\ prog = "dataframe_parser" /\ pc = "done" => df = SortValues(all_data)

\* C5 witness: a finished run with a blank row between two named rows of the run
C5_Witness ==
    /\ Finished /\ prog = "hierarchy_mapper"
    /\ \E p \in BlankOffsets :
          /\ 1 < p /\ p < Len(Hierarchy)
          /\ NameColumn(ws, p - 1) # PyNone /\ NameColumn(ws, p + 1) # PyNone
          /\ Len(assets_data) >= 3

(***************************************************************************)
(* Value scenarios: one named row below the header.                        *)
(***************************************************************************)
Dsc == banking_config.data_start_column
HeaderAt(c) == WsCell(ws, banking_config.date_row, c)
DataAt(c) == WsCell(ws, banking_config.assets_row, c)

\* a header cell the scan of hierarchy_mapper and dataframe_parser keeps
Parses(c) == Truthy(c) /\ (c.k = "datetime" \/ ToDatetime(c) # PyNone)

\* the header columns that parse, left to right
RECURSIVE ParsedColsUpTo(_)
ParsedColsUpTo(c) ==
    IF c < Dsc THEN <<>>
    ELSE IF Parses(HeaderAt(c)) THEN Append(ParsedColsUpTo(c - 1), c)
    ELSE ParsedColsUpTo(c - 1)
ParsedCols == ParsedColsUpTo(ws.max_column)

\* the positions k of the axis whose positional column holds a number, in order
RECURSIVE NumericUpTo(_)
NumericUpTo(k) ==
    IF k = 0 THEN <<>>
    ELSE IF IsIntOrFloat(DataAt(Dsc + k - 1)) THEN Append(NumericUpTo(k - 1), k)
    ELSE NumericUpTo(k - 1)

HmRowDone ==
    /\ prog = "hierarchy_mapper" /\ pc \in {"assets", "build", "done"}
    /\ level_pos = 2 /\ Len(assets_data) = 1
DfRowDone ==
    /\ prog = "dataframe_parser" /\ pc \in {"assets", "done", "error"} /\ level_pos = 2
EjRowDone ==
    /\ prog = "extract_json" /\ pc \in {"assets", "done"}
    /\ level_pos = 2 /\ Len(result.nodes) = 1

\* C6: in extract_hierarchy_data the values map of a row holds the key dates[i]
\* exactly when the data cell read for period i is present and numeric, then with
\* that cell's value (never a zero for a blank cell)
C6_KeyIffNumericCell ==
    HmRowDone =>
        \A i \in 1..Len(dates) :
            /\ dates[i] \in DOMAIN assets_data[1].values <=> IsIntOrFloat(DataAt(Dsc + i - 1))
            /\ DataAt(Dsc + i - 1) = PyNone => dates[i] \notin DOMAIN assets_data[1].values

LastWriter(k) ==
    LET writers == { j \in 1..Len(dates) :
                       dates[j] = dates[k] /\ IsIntOrFloat(DataAt(Dsc + j - 1)) }
    IN  IF writers = {} THEN k ELSE Max(writers)

\* C8: the k-th parsed period is paired with the data cell of column
\* data_start_column + k (0-based k), not with the column of its own header: that
\* column is left of the header's whenever a header cell before it was skipped, and
\* is the header's own column when none was
C8_PositionalAfterFiltering ==
    /\ HmRowDone =>
          /\ Len(dates) = Len(ParsedCols)
          /\ \A k \in 1..Len(dates) :
                /\ dates[k] = Strftime(ToDatetime(HeaderAt(ParsedCols[k])))
                /\ ParsedCols[k] >= Dsc + k - 1
                /\ ParsedCols[k] > Dsc + k - 1
                     <=> \E c \in Dsc..(ParsedCols[k] - 1) : ~Parses(HeaderAt(c))
                /\ IsIntOrFloat(DataAt(Dsc + LastWriter(k) - 1))
                     => /\ dates[k] \in DOMAIN assets_data[1].values
                        /\ assets_data[1].values[dates[k]] = DataAt(Dsc + LastWriter(k) - 1)
                /\ ~IsIntOrFloat(DataAt(Dsc + LastWriter(k) - 1))
                      => dates[k] \notin DOMAIN assets_data[1].values
    /\ DfRowDone =>
          /\ Len(dates) = Len(ParsedCols)
          /\ Len(all_data) = Len(NumericUpTo(Len(dates)))
          /\ \A i \in 1..Len(all_data) :
                LET k == NumericUpTo(Len(dates))[i]
                IN  /\ all_data[i].date = ToDatetime(HeaderAt(ParsedCols[k]))
                    /\ all_data[i].value = DataAt(Dsc + k - 1)

\* C8 witness: a period right of a skipped header cell took the number of the
\* column to its left, which differs from the cell under its own header
C8_Witness ==
    /\ HmRowDone /\ pc = "done"
    /\ \E k \in 1..Len(dates) :
          /\ ParsedCols[k] > Dsc + k - 1
          /\ LastWriter(k) = k
          /\ IsIntOrFloat(DataAt(Dsc + k - 1))
          /\ DataAt(ParsedCols[k]) # DataAt(Dsc + k - 1)
          /\ assets_data[1].values[dates[k]] = DataAt(Dsc + k - 1)

\* C9: the axis of extract_hierarchy_data lists the labels in the left-to-right
\* order of their header cells and holds every label at most once
C9_OrderedAndUnique ==
    (prog = "hierarchy_mapper" /\ pc # "header") =>
        /\ Len(dates) = Len(ParsedCols)
        /\ \A k \in 1..Len(dates) : dates[k] = Strftime(ToDatetime(HeaderAt(ParsedCols[k])))
        /\ \A i \in 1..Len(dates) : \A j \in 1..Len(dates) : i # j => dates[i] # dates[j]

(***************************************************************************)
(* Header scenarios of ExcelSheetParser.extract_dates_from_header.         *)
(***************************************************************************)
OpHeaderAt(c) == WsCell(ws, data_region.start_row - 1, c)

\* a header cell that parses as a date: a datetime, or a value pd.to_datetime takes
OpParses(c) == c # PyNone /\ (c.k = "datetime" \/ ToDatetime(c) # PyNone)

RECURSIVE OpParsedUpTo(_)
OpParsedUpTo(c) ==
    IF c < data_region.data_start_col THEN <<>>
    ELSE IF OpParses(OpHeaderAt(c)) THEN Append(OpParsedUpTo(c - 1), ToDatetime(OpHeaderAt(c)))
    ELSE OpParsedUpTo(c - 1)
OpParsed == OpParsedUpTo(ws.max_column)

TemplateApplies == template.present /\ template.sheet_matches /\ template.dates # <<>>
TemplateParses ==
    \A i \in 1..Len(template.dates) : ToDatetime(PyText(template.dates[i])) # PyNone

\* C10 as stated: the returned axis is exactly as long as the number of header cells
\* that parsed, also when none parsed
C10_AsStated ==
    (prog = "openpyxl_parser" /\ pc = "done") => Len(dates) = Len(OpParsed)

\* C10 amended: when at least one header cell parses, the returned axis is exactly
\* the parsed header cells in column order; when none parses the method does not
\* return an empty axis: it returns the dates of the template's metadata when the
\* template is for this sheet and lists dates (raising if one of them does not
\* parse), and otherwise 24 generated monthly dates
C10_ParsedOrFallback ==
    (prog = "openpyxl_parser" /\ pc \in {"done", "error"}) =>
        IF OpParsed # <<>>
        THEN pc = "done" /\ dates = OpParsed
        ELSE IF TemplateApplies
        THEN IF TemplateParses
             THEN /\ pc = "done"
                  /\ dates = [i \in 1..Len(template.dates) |->
                                 ToDatetime(PyText(template.dates[i]))]
             ELSE pc = "error"
        ELSE /\ pc = "done"
             /\ Len(dates) = SampleMonths
             /\ \A i \in 1..SampleMonths : \A j \in 1..SampleMonths :
                   i < j => dates[i].n < dates[j].n

\* C10 witness: no header cell parsed and the method returned the generated dates
C10_Witness ==
    /\ prog = "openpyxl_parser" /\ pc = "done"
    /\ OpParsed = <<>> /\ ~TemplateApplies
    /\ \E c \in data_region.data_start_col..ws.max_column : OpHeaderAt(c) # PyNone
    /\ Len(dates) = SampleMonths

(***************************************************************************)
(* Label scenarios: two named rows of levels 1 and 2, any labels.          *)
(***************************************************************************)
T_Eignir == <<"E","i","g","n","i","r">>
T_Assets == <<"A","s","s","e","t","s">>
T_Sep == <<" ", "/", " ">>
T_EignirAssets == T_Eignir \o T_Sep \o T_Assets
T_TotalOnly == <<"T","o","t","a","l","O","n","l","y">>

\* name cells: both locales, one locale, two separators, a slash without blanks,
\* blanks around the text, a separator at the end of the text, a number
Labels ==
    { PyText(T_EignirAssets), PyText(T_TotalOnly),
      PyText(<<"A">> \o T_Sep \o <<"B">> \o T_Sep \o <<"C">>),
      PyText(<<"A", "/", "B">>),
      PyText(<<" ", "A">> \o T_Sep \o <<"B", " ">>),
      PyText(<<"A">> \o T_Sep),
      PyInt(10) }

InitNames ==
    /\ banking_config = Config(<< 1, 2 >>)
    /\ \E n1 \in Labels, n2 \in Labels :
          ws = Sheet(<< PyText(T_2024_01), PyText(T_2024_02) >>, << n1, n2 >>,
                     << << PyInt(10), PyInt(20) >>, << PyInt(10), PyNone >> >>)
    /\ template = NoTemplate
    /\ data_region = DefaultRegion
    /\ \E p \in {"hierarchy_mapper", "extract_json", "dataframe_parser"} : Start(p)
    /\ NoDownload

SpecNames == InitNames /\ [][NextSections]_vars

\* (primary, secondary) is the split of label at the first occurrence of sep when
\* label contains sep, and (label, "") when it does not
IsSplitOf(label, sep, primary, secondary) ==
    IF \E i \in 1..Len(label) : \E j \in i..Len(label) : SubSeq(label, i, j) = sep
    THEN /\ label = primary \o sep \o secondary
         /\ \A i \in 1..Len(primary) :
               SubSeq(primary \o sep, i, i + Len(sep) - 1) # sep
    ELSE primary = label /\ secondary = <<>>

\* C11: extract_hierarchy_data and parse_excel_to_dataframe split a label at the
\* first " / " into (primary, secondary) and give (label, "") to a label without
\* it: "Eignir / Assets" gives ("Eignir", "Assets"), "TotalOnly" gives
\* ("TotalOnly", "").  The label is entry["name"] (the stripped text of the cell) in
\* extract_hierarchy_data and the cell's own value in parse_excel_to_dataframe
C11_BilingualSplit ==
    /\ prog = "hierarchy_mapper" =>
          \A i \in 1..Len(assets_data) :
             LET e == assets_data[i]
             IN  /\ IsSplitOf(e.name, T_Sep, e.is, e.en)
                 /\ e.name = T_EignirAssets => e.is = T_Eignir /\ e.en = T_Assets
                 /\ e.name = T_TotalOnly => e.is = T_TotalOnly /\ e.en = <<>>
    /\ prog = "dataframe_parser" =>
          \A i \in 1..Len(all_data) :
             LET r == all_data[i]
             IN  /\ r.name.k = "str" =>
                       /\ r.name_is.k = "str" /\ r.name_en.k = "str"
                       /\ IsSplitOf(r.name.s, T_Sep, r.name_is.s, r.name_en.s)
                 /\ r.name.k # "str" => r.name_is = r.name /\ r.name_en = PyText(<<>>)
                 /\ r.name = PyText(T_EignirAssets) =>
                       r.name_is = PyText(T_Eignir) /\ r.name_en = PyText(T_Assets)
                 /\ r.name = PyText(T_TotalOnly) =>
                       r.name_is = PyText(T_TotalOnly) /\ r.name_en = PyText(<<>>)

\* C11 witness: extract_hierarchy_data has split "Eignir / Assets" and a label
\* with two separators, and kept "TotalOnly" whole
C11_Witness ==
    /\ prog = "hierarchy_mapper" /\ pc = "done" /\ Len(assets_data) = 2
    /\ \E i \in 1..2 : \E j \in 1..2 :
          /\ assets_data[i].is = T_Eignir /\ assets_data[i].en = T_Assets
          /\ assets_data[j].is = <<"A">>
          /\ assets_data[j].en = <<"B">> \o T_Sep \o <<"C">>

\* C12: in parse_section a label without the separator "/" has an empty "en" and an
\* "is" equal to the whole label
C12_NoSeparatorEmptyEn ==
    (prog = "extract_json" /\ pc \in {"assets", "done"}) =>
        \A id \in 1..Len(result.nodes) :
            Find(result.nodes[id].name, <<"/">>) = 0 =>
                /\ result.nodes[id].is = result.nodes[id].name
                /\ result.nodes[id].en = <<>>

(***************************************************************************)
(* Two-section scenarios: an assets run and a liabilities run on one sheet. *)
(***************************************************************************)
\* dataframe_parser: the liabilities loop after j iterations, started from d0
RECURSIVE DfLiabilitiesData(_, _, _, _, _)
DfLiabilitiesData(w, cfg, ds, d0, j) ==
    IF j = 0 THEN d0
    ELSE DfLiabilitiesSectionRow(DfLiabilitiesData(w, cfg, ds, d0, j - 1), w, cfg,
                                 cfg.liabilities_row + j - 1, cfg.liabilities_hierarchy[j], ds)

\* parse_excel_to_dataframe(...): the returned frame, or raised
DfFrame(w, cfg) ==
    LET ds == DfDates(w, cfg, w.max_column)
        a == DfData(w, cfg, ds, Len(cfg.assets_hierarchy))
        l == DfLiabilitiesData(w, cfg, ds,
                               [ current_parents |-> DfLiabilitiesReset(a.current_parents),
                                 all_data |-> a.all_data ],
                               Len(cfg.liabilities_hierarchy))
    IN  IF l.all_data = <<>>
        THEN [raised |-> TRUE, df |-> <<>>]
        ELSE [raised |-> FALSE, df |-> SortValues(l.all_data)]

\* data rows of a section scenario: named with numbers, named without a number,
\* without a name
RowKinds == {"numbers", "text", "blank"}

SectionSheet(kinds) ==
    Sheet(<< PyText(T_2024_01), PyText(T_2024_02) >>,
          [r \in 1..Len(kinds) |-> IF kinds[r] = "blank" THEN PyNone ELSE PyText(<< Letters[r] >>)],
          [r \in 1..Len(kinds) |-> IF kinds[r] = "numbers" THEN << PyInt(10), PyInt(20) >>
                                   ELSE << PyNone, PyText(T_na) >>])

SectionSheets == { SectionSheet(kinds) : kinds \in [1..4 -> RowKinds] }

SectionConfig(assets, row, liabilities) ==
    [ Config(assets) EXCEPT !.liabilities_row = row, !.liabilities_hierarchy = liabilities ]

LiabilitiesLists == { <<>>, << 1 >>, << 2 >>, << 1, 2 >> }

InitSections ==
    /\ \E a \in { << 1 >>, << 1, 2 >> }, row \in {3, 4}, l \in LiabilitiesLists :
          banking_config = SectionConfig(a, row, l)
    /\ ws \in SectionSheets
    /\ template = NoTemplate
    /\ data_region = DefaultRegion
    /\ \E p \in {"hierarchy_mapper", "dataframe_parser"} : Start(p)
    /\ NoDownload

NextTwoSections ==
    \/ HmHeaderScan \/ HmHeaderDone \/ HmAssetsRow \/ HmLiabilitiesStart \/ HmLiabilitiesRow
    \/ HmBuildStart \/ HmBuildNode \/ HmBuildDone
    \/ HmBuildLiabilitiesStart \/ HmBuildLiabilitiesNode \/ HmBuildLiabilitiesDone
    \/ HmReadable
    \/ DfHeaderScan \/ DfHeaderDone \/ DfAssetsRow \/ DfLiabilitiesStart \/ DfLiabilitiesRow
    \/ DfReturn

SpecSections == InitSections /\ [][NextTwoSections]_vars

AssetRows(rows) == SelectSeq(rows, LAMBDA r : r.type = "asset")
LiabilityRows(rows) == SelectSeq(rows, LAMBDA r : r.type = "liability")

\* the sheets that differ from ws only in rows at or after liabilities_row
LiabilitiesAltered ==
    { w \in SectionSheets :
        \A r \in 1..(banking_config.liabilities_row - 1) : w.cell[r] = ws.cell[r] }

\* the configurations that differ only in liabilities_hierarchy
LiabilitiesReconfigured ==
    { [banking_config EXCEPT !.liabilities_hierarchy = l] : l \in LiabilitiesLists }

\* the assets part of the finished run is the assets part of every run on altered
\* liabilities
AssetsUnchanged ==
    /\ (prog = "hierarchy_mapper" /\ pc = "done") =>
          \A w \in LiabilitiesAltered : \A cfg \in LiabilitiesReconfigured :
              HmTree(assets_data, root_nodes, children, 0) = HmAssets(w, cfg, 0)
    /\ (prog = "dataframe_parser" /\ pc \in {"done", "error"}) =>
          /\ df = DfFrame(ws, banking_config).df
          /\ (pc = "error") = DfFrame(ws, banking_config).raised
          /\ \A w \in LiabilitiesAltered : \A cfg \in LiabilitiesReconfigured :
                AssetRows(df) = AssetRows(DfFrame(w, cfg).df)

\* names of the named rows of the liabilities run
LiabilitiesNames ==
    { WsCell(ws, banking_config.liabilities_row + j - 1, banking_config.data_name_column) :
        j \in 1..Len(LiabilitiesHierarchy) } \ { PyNone }

\* no liabilities row has a parent from outside the liabilities run
NoParentFromAssets ==
    /\ prog = "dataframe_parser" =>
          \A i \in 1..Len(all_data) :
              all_data[i].type = "liability" =>
                  all_data[i].parent \in LiabilitiesNames \cup { PyNone }
    /\ prog = "hierarchy_mapper" =>
          /\ \A i \in 1..Len(liabilities_data) :
                liabilities_data[i].row >= banking_config.liabilities_row
          /\ \A n \in DOMAIN liabilities_build.children :
                \A i \in 1..Len(liabilities_build.children[n]) :
                    liabilities_build.children[n][i] \in 1..Len(liabilities_data)

SectionsDisjoint ==
    banking_config.assets_row + Len(Hierarchy) <= banking_config.liabilities_row

\* C13 as stated: for any configuration, changing the rows at or after
\* liabilities_row or the liabilities level list never changes the assets tree or
\* the asset rows, and no liabilities row has a parent from the assets pass
C13_AsStated == AssetsUnchanged /\ NoParentFromAssets

\* C13 amended: when the assets run ends above liabilities_row (assets_row +
\* len(assets_hierarchy) <= liabilities_row), changing the rows at or after
\* liabilities_row or the liabilities level list never changes the assets tree of
\* extract_hierarchy_data nor the asset rows of the frame of
\* parse_excel_to_dataframe, and no liabilities row has a parent from the assets
\* pass; when the assets run reaches liabilities_row its rows belong to both
\* sections.  parse_excel_to_dataframe raises exactly when neither section has a
\* numeric cell
C13_IndependentWhenDisjoint ==
    SectionsDisjoint => (AssetsUnchanged /\ NoParentFromAssets)

\* C13 witness: a finished frame whose liabilities run starts at level 2 below an
\* assets run that left a level-1 parent behind
C13_Witness ==
    /\ prog = "dataframe_parser" /\ pc = "done" /\ SectionsDisjoint
    /\ AssetRows(df) # <<>>
    /\ LiabilitiesHierarchy # <<>> /\ LiabilitiesHierarchy[1] = 2
    /\ \E i \in 1..Len(df) : df[i].type = "liability" /\ df[i].parent = PyNone
    /\ \E w \in LiabilitiesAltered : w # ws

(***************************************************************************)
(* openpyxl_parser.ExcelSheetParser.detect_hierarchy.  A node is its       *)
(* position in detected.nodes; detected.row, .level and .in_assets keep    *)
(* row_idx, level and in_assets of the iteration that created it.          *)
(***************************************************************************)
MinSwitchOffset == 5
SpacesPerLevel == 2

T_SKULDIR == <<"S","K","U","L","D","I","R">>
T_LIABILITIES == <<"L","I","A","B","I","L","I","T","I","E","S">>

\* `sub in s`
Contains(s, sub) == Find(s, sub) # 0

\* str.lstrip()
Lstrip(s) ==
    LET keep == {i \in 1..Len(s) : s[i] # " "}
    IN  IF keep = {} THEN <<>> ELSE SubSeq(s, Min(keep), Len(s))

\* extract_dates_from_header: dates after the header cells up to column c
RECURSIVE OpDates(_, _, _)
OpDates(w, region, c) ==
    IF c < region.data_start_col THEN <<>>
    ELSE OpHeaderCell(OpDates(w, region, c - 1), WsCell(w, region.start_row - 1, c))

\* dates = self.extract_dates_from_header(...); date_strs = [d.strftime(...)]
DhDateStrs(w, region, tpl) ==
    LET r == OpReturn(OpDates(w, region, w.max_column), tpl)
    IN  [raised |-> r.raised, dates |-> [i \in 1..Len(r.dates) |-> Strftime(r.dates[i])]]

\* the switch test: `A or B and C` is `A or (B and C)`
DhSwitches(title_text, row_idx, start_row) ==
    \/ Contains(title_text, T_SKULDIR)
    \/ (Contains(title_text, T_LIABILITIES) /\ row_idx > start_row + MinSwitchOffset)

\* the level of a row: the cell's alignment indent, or else from the leading
\* blanks of title_text, which was stripped before
DhLevel(w, row_idx, title_text) ==
    IF w.indent[row_idx] # 0
    THEN w.indent[row_idx]
    ELSE (Len(title_text) - Len(Lstrip(title_text))) \div SpacesPerLevel

\* the values dict of a row
RECURSIVE DhValues(_, _, _, _, _)
DhValues(w, region, row_idx, ds, k) ==
    IF k = 0 THEN <<>>
    ELSE LET prev == DhValues(w, region, row_idx, ds, k - 1)
             value == WsCell(w, row_idx, region.data_start_col + (k - 1))
         IN  IF value # PyNone /\ IsIntOrFloat(value)
             THEN Put(prev, ds[k], value)
             ELSE prev

\* title_text.split(" / ")[0] and [1]
DhNode(w, region, row_idx, ds, title_text) ==
    LET sep == <<" ", "/", " ">>
        has == Contains(title_text, sep)
        rest == Split1(title_text, sep)[2]
    IN  [ name |-> title_text,
          is |-> IF has THEN Split1(title_text, sep)[1] ELSE title_text,
          en |-> IF has THEN (IF Contains(rest, sep) THEN Split1(rest, sep)[1] ELSE rest)
                 ELSE <<>>,
          values |-> DhValues(w, region, row_idx, ds, Len(ds)) ]

DhInit ==
    [ in_assets |-> TRUE, hierarchy_stack |-> <<>>,
      detected |-> [ nodes |-> <<>>, children |-> <<>>, assets |-> <<>>, liabilities |-> <<>>,
                     row |-> <<>>, level |-> <<>>, in_assets |-> <<>> ] ]

\* DhStackAtSwitch without the reset: the ancestors of the assets rows are kept
DhStackKept(switch, st) == st

\* `hierarchy_stack = []  # Reset the stack` at a switch
DhStackAtSwitch(switch, st) == IF switch THEN <<>> ELSE st

\* `while len(hierarchy_stack) > level: hierarchy_stack.pop()`
DhPop(st, level) == IF Len(st) > level THEN SubSeq(st, 1, level) ELSE st

\* one iteration of `for row_idx in range(start_row, ws.max_row + 1)`
DhRow(x, w, region, row_idx, ds) ==
    LET title == WsCell(w, row_idx, region.title_col)
    IN  IF title = PyNone \/ Strip(PyStr(title)) = <<>>
        THEN x
        ELSE
          LET title_text == Strip(PyStr(title))
              switch == DhSwitches(title_text, row_idx, region.start_row)
              ia == IF switch THEN FALSE ELSE x.in_assets
              st == DhPop(DhStackAtSwitch(switch, x.hierarchy_stack),
                          DhLevel(w, row_idx, title_text))
              level == DhLevel(w, row_idx, title_text)
              d == x.detected
              id == Len(d.nodes) + 1
              top == level = 0 \/ st = <<>>
          IN  [ in_assets |-> ia,
                hierarchy_stack |-> IF top THEN << id >> ELSE Append(st, id),
                detected |->
                  [ nodes |-> Append(d.nodes, DhNode(w, region, row_idx, ds, title_text)),
                    children |-> [i \in 1..id |->
                                    IF i = id THEN <<>>
                                    ELSE IF ~top /\ i = st[Len(st)] THEN Append(d.children[i], id)
                                    ELSE d.children[i]],
                    assets |-> IF top /\ ia THEN Append(d.assets, id) ELSE d.assets,
                    liabilities |-> IF top /\ ~ia THEN Append(d.liabilities, id)
                                    ELSE d.liabilities,
                    row |-> Append(d.row, row_idx),
                    level |-> Append(d.level, level),
                    in_assets |-> Append(d.in_assets, ia) ] ]

DhUnchanged == UNCHANGED << col, level_pos, assets_data, node_pos, root_nodes, node_map,
                           children, stack, result, current_parents, all_data, df,
                           liab_pos, liabilities_data, liabilities_build, readable,
                           Download >>

\* openpyxl_parser.py 181-216: the dates are extracted, the loop starts
DhStart ==
    /\ prog = "detect_hierarchy" /\ pc = "header"
    /\ LET r == DhDateStrs(ws, data_region, template)
       IN  /\ pc' = IF r.raised THEN "error" ELSE "rows"
           /\ dates' = r.dates
    /\ row_index' = data_region.start_row
    /\ in_assets' = DhInit.in_assets
    /\ hierarchy_stack' = DhInit.hierarchy_stack
    /\ detected' = DhInit.detected
    /\ UNCHANGED Input
    /\ DhUnchanged

\* openpyxl_parser.py 219-289
DhRowStep ==
    /\ prog = "detect_hierarchy" /\ pc = "rows"
    /\ row_index <= ws.max_row
    /\ LET x == DhRow([in_assets |-> in_assets, hierarchy_stack |-> hierarchy_stack,
                       detected |-> detected], ws, data_region, row_index, dates)
       IN  /\ in_assets' = x.in_assets
           /\ hierarchy_stack' = x.hierarchy_stack
           /\ detected' = x.detected
    /\ row_index' = row_index + 1
    /\ UNCHANGED << Input, pc, dates >>
    /\ DhUnchanged

\* openpyxl_parser.py 291-307
DhReturn ==
    /\ prog = "detect_hierarchy" /\ pc = "rows"
    /\ row_index > ws.max_row
    /\ pc' = "done"
    /\ UNCHANGED << Input, dates, row_index, Detect >>
    /\ DhUnchanged

(***************************************************************************)
(* Title-column scenarios of detect_hierarchy: seven rows below the header. *)
(***************************************************************************)
TitleKinds ==
    { "plain", "blank", "spaces", "indent1", "indent2", "padded", "skuldir", "skuldir1",
      "liabilities" }

TitleCell(kind, r) ==
    CASE kind = "blank" -> PyNone
      [] kind = "spaces" -> PyText(<< " ", " " >>)
      [] kind = "padded" -> PyText(<< " ", " ", Letters[r] >>)
      [] kind \in {"skuldir", "skuldir1"} -> PyText(T_SKULDIR)
      [] kind = "liabilities" -> PyText(T_LIABILITIES)
      [] OTHER -> PyText(<< Letters[r] >>)

TitleIndent(kind) ==
    CASE kind \in {"indent1", "skuldir1"} -> 1
      [] kind = "indent2" -> 2
      [] OTHER -> 0

\* the sheet of a title scenario, each cell of the title column with its
\* alignment indent
TitleSheet(kinds) ==
    LET sh == Sheet(<< PyText(T_2024_01), PyText(T_2024_02) >>,
                    [r \in 1..Len(kinds) |-> TitleCell(kinds[r], r)],
                    [r \in 1..Len(kinds) |-> << PyInt(10), PyText(T_na) >>])
    IN  [ max_row |-> sh.max_row, max_column |-> sh.max_column, cell |-> sh.cell,
          indent |-> [r \in 1..(1 + Len(kinds)) |->
                        IF r = 1 THEN 0 ELSE TitleIndent(kinds[r - 1])] ]

\* title columns with at most three rows that are not plain
TitleColumns ==
    { kinds \in [1..(MinSwitchOffset + 2) -> TitleKinds] :
        Cardinality({ r \in 1..(MinSwitchOffset + 2) : kinds[r] # "plain" }) <= 3 }

InitDetect ==
    /\ banking_config = Config(<< 1 >>)
    /\ \E kinds \in TitleColumns : ws = TitleSheet(kinds)
    /\ template = NoTemplate
    /\ data_region = DefaultRegion
    /\ Start("detect_hierarchy")
    /\ NoDownload

NextDetect == DhStart \/ DhRowStep \/ DhReturn

SpecDetect == InitDetect /\ [][NextDetect]_vars

InDetect == prog = "detect_hierarchy" /\ pc \in {"rows", "done"}

DhTitle(r) == Strip(PyStr(WsCell(ws, r, data_region.title_col)))
IsMarker(r) ==
    /\ WsCell(ws, r, data_region.title_col) # PyNone
    /\ \/ Contains(DhTitle(r), T_SKULDIR)
       \/ Contains(DhTitle(r), T_LIABILITIES)

\* C14: detect_hierarchy leaves the assets section only at a row whose label holds
\* "SKULDIR" or "LIABILITIES" and whose index is beyond start_row + 5; a marker row
\* within the first rows neither switches sections nor resets the stack
C14_SwitchOnlyBeyondOffset ==
    InDetect =>
        /\ ~in_assets =>
              \E r \in (data_region.start_row + MinSwitchOffset + 1)..(row_index - 1) :
                  IsMarker(r)
        /\ \A id \in 1..Len(detected.nodes) :
              (IsMarker(detected.row[id])
                 /\ detected.row[id] <= data_region.start_row + MinSwitchOffset)
              => /\ detected.in_assets[id]
                 /\ (detected.level[id] > 0 /\ id > 1) =>
                        \E p \in 1..(id - 1) : id \in { detected.children[p][i] :
                                                         i \in 1..Len(detected.children[p]) }

(***************************************************************************)
(* The flat view of parse_excel_to_dataframe against the tree view of      *)
(* extract_hierarchy_data.                                                 *)
(***************************************************************************)
\* C15: the frame returned by parse_excel_to_dataframe lists the rows in the order
\* they were collected (grid rows in increasing index, the periods of a row in axis
\* order) and is not re-sorted
C15_OriginalRowOrder ==
    (prog = "dataframe_parser" /\ pc = "done") => df = all_data

\* the values map extract_hierarchy_data builds for the row of a value scenario
HmValuesOfRow ==
    HmData(ws, banking_config, HmDates(ws, banking_config, ws.max_column), 1)[1].values

\* C16: for the same grid and configuration, the number of flat rows
\* parse_excel_to_dataframe emits for a row equals the number of keys of the values
\* map extract_hierarchy_data builds for that row, for any header row contents
C16_FlatCountIsValuesCount ==
    /\ DfRowDone => Len(all_data) = Cardinality(DOMAIN HmValuesOfRow)
    /\ HmRowDone =>
          Cardinality(DOMAIN assets_data[1].values) = Len(DfAllData(ws, banking_config))

\* both views of the assets section of the grid: the one of the running program from
\* its state, the other computed from the same sheet and configuration
TreeData ==
    IF prog = "hierarchy_mapper" THEN assets_data
    ELSE HmData(ws, banking_config, HmDates(ws, banking_config, ws.max_column),
                Len(Hierarchy))
TreeBuild ==
    IF prog = "hierarchy_mapper" THEN [root_nodes |-> root_nodes, children |-> children]
    ELSE HmBuild(TreeData, Len(TreeData))
FlatRows == IF prog = "dataframe_parser" THEN all_data ELSE DfAllData(ws, banking_config)

\* the entries of section_data that are nodes of the returned tree
TreeNodes ==
    { HmPreorder(TreeBuild.children, TreeBuild.root_nodes)[i] :
        i \in 1..Len(HmPreorder(TreeBuild.children, TreeBuild.root_nodes)) }

\* the name of the parent node of tree node n, None for a root
TreeParent(n) ==
    LET ps == { p \in DOMAIN TreeBuild.children :
                  \E i \in 1..Len(TreeBuild.children[p]) : TreeBuild.children[p][i] = n }
    IN  IF ps = {} THEN PyNone ELSE PyText(TreeData[CHOOSE p \in ps : TRUE].name)

BothViews ==
    \/ prog = "hierarchy_mapper" /\ pc = "done"
    \/ prog = "dataframe_parser" /\ pc = "done"

\* C17: the two views do not diverge: a line item with at least one value is in the
\* flat view exactly when it is a node of the tree, and the parent of its flat rows
\* is the name of its parent node (none for a root)
C17_ViewsAgree ==
    BothViews =>
        /\ \A i \in 1..Len(FlatRows) :
              \E n \in TreeNodes :
                  /\ PyText(TreeData[n].name) = FlatRows[i].name
                  /\ TreeParent(n) = FlatRows[i].parent
        /\ \A n \in TreeNodes :
              DOMAIN TreeData[n].values # {} =>
                  \E i \in 1..Len(FlatRows) : FlatRows[i].name = PyText(TreeData[n].name)

\* the sum of the 'value' column of the rows
RECURSIVE SumValues(_)
SumValues(rows) == IF rows = <<>> THEN 0 ELSE rows[1].value.n + SumValues(Tail(rows))

\* the flat rows of type asset and hierarchy level 1 with this name and period
FlatGroup(name, period) ==
    SelectSeq(FlatRows, LAMBDA r : /\ r.type = "asset" /\ r.hierarchy_level = 1
                                   /\ r.name = PyText(name)
                                   /\ Strftime(r.date) = period)

\* C18: for every top-level asset node of the tree and every period P, the sum of the
\* flat values of type asset, level 1, that node's name and period P equals the
\* node's values[P]; a group without rows belongs to a period without a value
C18_TopLevelSums ==
    BothViews =>
        \A i \in 1..Len(TreeBuild.root_nodes) :
            LET node == TreeData[TreeBuild.root_nodes[i]]
            IN  \A k \in 1..Len(dates) :
                   LET P == IF prog = "dataframe_parser" THEN Strftime(dates[k]) ELSE dates[k]
                   IN  IF P \in DOMAIN node.values
                       THEN SumValues(FlatGroup(node.name, P)) = node.values[P].n
                       ELSE FlatGroup(node.name, P) = <<>>

(***************************************************************************)
(* The readable mapping against the tree it was made from.                 *)
(***************************************************************************)
ParentsIn(ch, n) == { p \in DOMAIN ch : \E i \in 1..Len(ch[p]) : ch[p][i] = n }
PositionIn(list, n) == CHOOSE i \in 1..Len(list) : list[i] = n

\* the 0-based sibling positions from the root list down to node n
RECURSIVE PathOf(_, _, _)
PathOf(ch, roots, n) ==
    IF ParentsIn(ch, n) = {} THEN << PositionIn(roots, n) - 1 >>
    ELSE LET p == CHOOSE q \in ParentsIn(ch, n) : TRUE
         IN  Append(PathOf(ch, roots, p), PositionIn(ch[p], n) - 1)

\* key is the positions of path (each below 10, one digit) with a dot between
\* neighbours
IsDotJoined(key, path) ==
    /\ Len(key) = 2 * Len(path) - 1
    /\ \A j \in 1..Len(path) : path[j] < 10 /\ key[2 * j - 1] = Digits[path[j] + 1]
    /\ \A j \in 1..(Len(path) - 1) : key[2 * j] = "."

\* r holds one entry per node of the tree, in depth-first pre-order, under pairwise
\* distinct keys that are the dot-joined paths
ReadableOf(r, data, ch, roots) ==
    LET pre == HmPreorder(ch, roots)
    IN  /\ Len(r) = Len(pre)
        /\ \A i \in 1..Len(r) :
              /\ r[i].entry.id = data[pre[i]].row
              /\ r[i].entry.name = data[pre[i]].name
              /\ r[i].entry.path = PathOf(ch, roots, pre[i])
              /\ IsDotJoined(r[i].key, PathOf(ch, roots, pre[i]))
        /\ \A i \in 1..Len(r) : \A j \in 1..Len(r) : i # j => r[i].key # r[j].key

HmMapped == prog = "hierarchy_mapper" /\ pc = "mapped"

\* C19: extract_readable_hierarchy returns exactly one entry per node of the tree,
\* in depth-first pre-order, under pairwise distinct keys, each key the dot-joined
\* 0-based sibling positions on the path from the root list to the node
C19_OneEntryPerNode ==
    HmMapped =>
        /\ ReadableOf(readable.assets, assets_data, children, root_nodes)
        /\ ReadableOf(readable.liabilities, liabilities_data, liabilities_build.children,
                      liabilities_build.root_nodes)

\* C19 witness: a mapping with the key "0.1.0" and a second root "1"
C19_Witness ==
    /\ HmMapped
    /\ \E i \in 1..Len(readable.assets) :
          readable.assets[i].key = << "0", ".", "1", ".", "0" >>
    /\ \E i \in 1..Len(readable.assets) : readable.assets[i].key = << "1" >>

\* the "is" values from the root down to node n, joined by " > "
RECURSIVE Breadcrumb(_, _, _)
Breadcrumb(data, ch, n) ==
    IF ParentsIn(ch, n) = {} THEN data[n].is
    ELSE Breadcrumb(data, ch, CHOOSE q \in ParentsIn(ch, n) : TRUE)
           \o << " ", ">", " " >> \o data[n].is

\* C20: the full_path of every entry is the "is" values along the chain from the root
\* to the node, root first, joined by " > "
C20_BreadcrumbOfPrimaryNames ==
    HmMapped =>
        LET pre == HmPreorder(children, root_nodes)
        IN  \A i \in 1..Len(pre) :
               i <= Len(readable.assets) =>
                   readable.assets[i].entry.full_path = Breadcrumb(assets_data, children, pre[i])

(***************************************************************************)
(* parse_section alone on the tree scenarios.                              *)
(***************************************************************************)
InitParse == InitTree /\ prog = "extract_json"

NextParse == EjHeaderScan \/ EjHeaderDone \/ EjAssetsRow \/ EjAssetsDone

SpecParse == InitParse /\ [][NextParse]_vars

\* the nodes below node id in the tree built so far
RECURSIVE EjDescendants(_, _)
EjDescendants(ch, id) ==
    UNION { { ch[id][i] } \cup EjDescendants(ch, ch[id][i]) : i \in 1..Len(ch[id]) }

\* the nodes of the longest run of named rows after the row of node id whose
\* levels are all greater than the level of node id (rows without a name create
\* no node and do not end the run)
EjRunAfter(id) ==
    { j \in (id + 1)..Len(result.nodes) :
        \A k \in (id + 1)..j : LevelOfNode(k) > LevelOfNode(id) }

\* C21: in parse_section, for levels >= 1, the descendants of every node are the
\* nodes of the longest run of named rows following its row whose levels are all
\* greater than its own; every "children" list is in increasing row order, and
\* the depth-first pre-order walk of the section visits the nodes in row order
C21_DescendantsAreFollowingRun ==
    InParseSection =>
        /\ \A id \in 1..Len(result.nodes) :
              EjDescendants(result.children, id) = EjRunAfter(id)
        /\ \A p \in DOMAIN result.children :
              \A i \in 1..Len(result.children[p]) : \A j \in 1..Len(result.children[p]) :
                  i < j => result.children[p][i] < result.children[p][j]
        /\ HmPreorder(result.children, result.children[0])
              = [i \in 1..Len(result.nodes) |-> i]

\* C21 witness: a finished section where a node has a grandchild, a row without a
\* name lies inside its run, and a later row of its own level ends the run
C21_Witness ==
    /\ prog = "extract_json" /\ pc = "done"
    /\ \E id \in 1..Len(result.nodes) :
          /\ \E c \in EjDescendants(result.children, id) :
                EjDescendants(result.children, c) # {}
          /\ \E j \in 1..Len(result.nodes) :
                /\ j > id /\ j \notin EjDescendants(result.children, id)
                /\ LevelOfNode(j) = LevelOfNode(id)
          /\ \E r \in 1..Len(Hierarchy) :
                /\ NameColumn(ws, r) = PyNone
                /\ \E a \in {id} \cup EjDescendants(result.children, id) :
                      \E b \in EjDescendants(result.children, id) :
                          NamedOffsets(ws, Examined)[a] < r /\ r < NamedOffsets(ws, Examined)[b]

\* the node whose "children" holds node id, 0 when it is a child of a section root
DhParent(id) ==
    LET ps == { p \in 1..Len(detected.children) :
                  \E i \in 1..Len(detected.children[p]) : detected.children[p][i] = id }
    IN  IF ps = {} THEN 0 ELSE Max(ps)

\* C22: detect_hierarchy never attaches a node beneath a node whose inferred level
\* is greater than or equal to its own, and two rows of the same inferred level
\* in one section with no shallower row between them are siblings
C22_NoStaleAncestor ==
    InDetect =>
        /\ \A id \in 1..Len(detected.nodes) :
              DhParent(id) # 0 => detected.level[DhParent(id)] < detected.level[id]
        /\ \A a \in 1..Len(detected.nodes) : \A b \in 1..Len(detected.nodes) :
              (/\ a < b
               /\ detected.level[a] = detected.level[b]
               /\ detected.in_assets[a] = detected.in_assets[b]
               /\ \A k \in (a + 1)..(b - 1) : detected.level[k] >= detected.level[a])
              => DhParent(a) = DhParent(b)

\* blanks before the first other character of the label as the cell holds it
LeadingSpaces(r) ==
    LET label == PyStr(WsCell(ws, r, data_region.title_col))
    IN  Len(label) - Len(Lstrip(label))

\* C23: in detect_hierarchy a row whose cell has no alignment indent gets the
\* level of its label's leading blanks, two per level: 2k leading blanks give
\* level k
C23_LevelFromLeadingSpaces ==
    InDetect =>
        \A id \in 1..Len(detected.nodes) :
            ws.indent[detected.row[id]] = 0 =>
                detected.level[id] = LeadingSpaces(detected.row[id]) \div SpacesPerLevel

(***************************************************************************)
(* Grid scenarios of extract_hierarchy_data: the configured row indices    *)
(* lie in the sheet or below its last row.                                 *)
(***************************************************************************)
InitGrid ==
    /\ ws \in SectionSheets
    /\ \E a \in { << 1 >>, << 1, 2 >> }, l \in { <<>>, << 1 >>, << 1, 2 >> },
          ar \in {2, 5, 6}, lr \in {4, 6, 7}, dr \in {1, 6} :
          banking_config = [ SectionConfig(a, lr, l) EXCEPT !.assets_row = ar,
                                                            !.date_row = dr ]
    /\ template = NoTemplate
    /\ data_region = DefaultRegion
    /\ Start("hierarchy_mapper")
    /\ NoDownload

NextGrid ==
    \/ HmHeaderScan \/ HmHeaderDone \/ HmAssetsRow \/ HmLiabilitiesStart \/ HmLiabilitiesRow
    \/ HmBuildStart \/ HmBuildNode \/ HmBuildDone
    \/ HmBuildLiabilitiesStart \/ HmBuildLiabilitiesNode \/ HmBuildLiabilitiesDone

SpecGrid == InitGrid /\ [][NextGrid]_vars

InGrid(row) == row \in 1..ws.max_row

\* C24: extract_hierarchy_data returns a result only when assets_row,
\* liabilities_row and the header row index lie in the grid; with an index outside
\* the grid it raises and returns no empty or truncated section
C24_OutOfGridRaises ==
    (prog = "hierarchy_mapper" /\ pc = "done") =>
        /\ InGrid(banking_config.date_row)
        /\ InGrid(banking_config.assets_row)
        /\ InGrid(banking_config.liabilities_row)
        /\ InGrid(banking_config.assets_row + Len(Hierarchy) - 1)

(***************************************************************************)
(* scraper/download_data.download_subcategory_data.  files is the set of   *)
(* paths that exist; a link is named by (match_pos, link_pos); the entries *)
(* of downloaded_files and failed_downloads keep the link they were made   *)
(* for, and a record of writes keeps the link, the filename chosen for it  *)
(* and the paths that existed when the file was opened.                    *)
(***************************************************************************)
MaxLinks == 2     \* most links of the subcategory in data_links.yaml

T_ROOT == << "h","t","t","p","s",":","/","/","w","w","w",".","s","e","d","l","a","b","a",
             "n","k","i",".","i","s" >>
T_http == << "h","t","t","p" >>
T_filename == << "f","i","l","e","n","a","m","e","=" >>
T_xlsx == << ".","x","l","s","x" >>
T_S == << "S" >>

\* the cache_dir argument, created by os.makedirs(cache_dir, exist_ok=True)
CacheDir == << "c" >>

\* str.startswith(prefix)
StartsWith(s, prefix) == Len(s) >= Len(prefix) /\ SubSeq(s, 1, Len(prefix)) = prefix

\* str.replace(a, b) of single characters
Replace(s, a, b) == [i \in 1..Len(s) |-> IF s[i] = a THEN b ELSE s[i]]

\* str.strip('"')
StripQuotes(s) ==
    LET keep == {i \in 1..Len(s) : s[i] # "\""}
    IN  IF keep = {} THEN <<>> ELSE SubSeq(s, Min(keep), Max(keep))

\* s.split(sep)[1] of a string that contains sep
SplitSecond(s, sep) ==
    LET rest == Split1(s, sep)[2]
    IN  IF Contains(rest, sep) THEN Split1(rest, sep)[1] ELSE rest

\* download_data.py 75-76
AbsoluteUrl(link_url) ==
    IF StartsWith(link_url, T_http) THEN link_url
    ELSE T_ROOT \o (IF StartsWith(link_url, << "/" >>) THEN link_url
                    ELSE << "/" >> \o link_url)

\* urllib.parse.urlparse(url).path of a URL without parameters, query or fragment
UrlPath(url) ==
    LET i == Find(url, << ":", "/", "/" >>)
        rest == SubSeq(url, i + 3, Len(url))
        j == Find(rest, << "/" >>)
    IN  IF i = 0 THEN url
        ELSE IF j = 0 THEN <<>>
        ELSE SubSeq(rest, j, Len(rest))

\* index of the last "/" of p, 0 when there is none
LastSlash(p) ==
    LET at == {i \in 1..Len(p) : p[i] = "/"}
    IN  IF at = {} THEN 0 ELSE Max(at)

\* os.path.basename(p)
Basename(p) == SubSeq(p, LastSlash(p) + 1, Len(p))

\* os.path.splitext(p): the extension starts at the last dot of the last
\* component unless only dots precede it there
Splitext(p) ==
    LET dots == {i \in (LastSlash(p) + 1)..Len(p) : p[i] = "."}
        d == Max(dots)
    IN  IF dots = {} \/ \A i \in (LastSlash(p) + 1)..(d - 1) : p[i] = "."
        THEN << p, <<>> >>
        ELSE << SubSeq(p, 1, d - 1), SubSeq(p, d, Len(p)) >>

\* os.path.join(directory, filename)
PathJoin(directory, filename) ==
    IF StartsWith(filename, << "/" >>) THEN filename
    ELSE IF directory = <<>> \/ directory[Len(directory)] = "/" THEN directory \o filename
    ELSE directory \o << "/" >> \o filename

\* os.path.exists(path): a file of fs, or the cache directory itself
Exists(fs, path) ==
    path \in fs \/ path = CacheDir \/ path = CacheDir \o << "/" >>

\* download_data.py 86-95: the filename of a response, or the IndexError of a
\* Content-Disposition header without "filename="
DlFilename(link_name, link_url, response) ==
    IF response.disposition
    THEN IF Contains(response.header, T_filename)
         THEN [raised |-> FALSE,
               filename |-> StripQuotes(SplitSecond(response.header, T_filename))]
         ELSE [raised |-> TRUE, filename |-> <<>>]
    ELSE LET filename == Basename(UrlPath(link_url))
         IN  [raised |-> FALSE,
              filename |-> IF filename = <<>> \/ ~Contains(filename, << "." >>)
                           THEN Replace(link_name, " ", "_") \o T_xlsx
                           ELSE filename]

\* DlUniquePath without the loop: the first path is taken as it is
DlUniquePathOnce(fs, name, ext, file_path, counter) == file_path

\* download_data.py 101-106: `while os.path.exists(file_path)`
RECURSIVE DlUniquePath(_, _, _, _, _)
DlUniquePath(fs, name, ext, file_path, counter) ==
    IF Exists(fs, file_path)
    THEN DlUniquePath(fs, name, ext,
                      PathJoin(CacheDir, name \o << "_" >> \o Str(counter) \o ext),
                      counter + 1)
    ELSE file_path

\* download_data.py 39-47: the links of every subcategory named subcategory_name
RECURSIVE DlMatchesOf(_, _)
DlMatchesOf(subcategories, subcategory_name) ==
    IF subcategories = <<>> THEN <<>>
    ELSE (IF subcategories[1].name = subcategory_name
          THEN << subcategories[1].links >> ELSE <<>>)
         \o DlMatchesOf(Tail(subcategories), subcategory_name)

RECURSIVE DlMatches(_, _)
DlMatches(categories, subcategory_name) ==
    IF categories = <<>> THEN <<>>
    ELSE DlMatchesOf(categories[1].subcategories, subcategory_name)
         \o DlMatches(Tail(categories), subcategory_name)

\* download_data.py 71-130: one iteration of `for link in links`.  response.ok is
\* FALSE when requests.get or raise_for_status raises; save is what open and
\* write do: "saved", "open" (open raises, no file), "write" (write raises)
DlLinkStep(x, id, link, response, save) ==
    LET link_url == AbsoluteUrl(link.url)
        f == DlFilename(link.name, link_url, response)
        split == Splitext(f.filename)
        file_path == DlUniquePath(x.files, split[1], split[2],
                                  PathJoin(CacheDir, f.filename), 1)
        failed == [ x EXCEPT !.failed_downloads =
                        Append(@, [name |-> link.name, url |-> link_url, link |-> id]) ]
        opened == [ files |-> x.files \cup { file_path },
                    downloaded_files |-> x.downloaded_files,
                    failed_downloads |-> x.failed_downloads,
                    writes |-> Append(x.writes, [ path |-> file_path, link |-> id,
                                                  filename |-> f.filename,
                                                  before |-> x.files ]) ]
    IN  IF ~response.ok \/ f.raised \/ save = "open" THEN failed
        ELSE IF save = "write"
        THEN [ opened EXCEPT !.failed_downloads =
                   Append(@, [name |-> link.name, url |-> link_url, link |-> id]) ]
        ELSE [ opened EXCEPT !.downloaded_files =
                   Append(@, [name |-> link.name, url |-> link_url, path |-> file_path,
                              link |-> id]) ]

Responses ==
    { [ok |-> FALSE, disposition |-> FALSE, header |-> <<>>],
      [ok |-> TRUE, disposition |-> FALSE, header |-> <<>>],
      [ok |-> TRUE, disposition |-> TRUE,
       header |-> T_filename \o << "\"", "a", ".", "x", "\"" >>],
      [ok |-> TRUE, disposition |-> TRUE, header |-> T_filename \o << "\"", "\"" >>],
      [ok |-> TRUE, disposition |-> TRUE, header |-> << "i", "n", "l", "i", "n", "e" >>] }

DlUnchanged == UNCHANGED << col, dates, level_pos, row_index, assets_data, node_pos,
                           root_nodes, node_map, children, stack, result, current_parents,
                           all_data, df, liab_pos, liabilities_data, liabilities_build,
                           readable, Detect >>

\* download_data.py 19-59: the links file is loaded and searched; an unreadable or
\* empty file and a subcategory that is not found return an error
DlLoad ==
    /\ prog = "download_data" /\ pc = "header"
    /\ \E readable_file \in BOOLEAN :
          IF ~readable_file \/ yaml_data = <<>> \/ DlMatches(yaml_data, T_S) = <<>>
          THEN pc' = "error" /\ UNCHANGED << matches, match_pos, link_pos >>
          ELSE /\ pc' = "links"
               /\ matches' = DlMatches(yaml_data, T_S)
               /\ match_pos' = 1
               /\ link_pos' = 1
    /\ UNCHANGED << Input, yaml_data, files, downloaded_files, failed_downloads, writes >>
    /\ DlUnchanged

\* download_data.py 70-130
DlLink ==
    /\ prog = "download_data" /\ pc = "links"
    /\ match_pos <= Len(matches)
    /\ link_pos <= Len(matches[match_pos])
    /\ \E response \in Responses, save \in {"saved", "open", "write"} :
          LET x == DlLinkStep([ files |-> files, downloaded_files |-> downloaded_files,
                                failed_downloads |-> failed_downloads, writes |-> writes ],
                              << match_pos, link_pos >>, matches[match_pos][link_pos],
                              response, save)
          IN  /\ files' = x.files
              /\ downloaded_files' = x.downloaded_files
              /\ failed_downloads' = x.failed_downloads
              /\ writes' = x.writes
    /\ link_pos' = link_pos + 1
    /\ UNCHANGED << Input, pc, yaml_data, matches, match_pos >>
    /\ DlUnchanged

\* download_data.py 62-70: the next match
DlNextMatch ==
    /\ prog = "download_data" /\ pc = "links"
    /\ match_pos <= Len(matches)
    /\ link_pos > Len(matches[match_pos])
    /\ match_pos' = match_pos + 1
    /\ link_pos' = 1
    /\ UNCHANGED << Input, pc, yaml_data, files, matches, downloaded_files,
                    failed_downloads, writes >>
    /\ DlUnchanged

\* download_data.py 132-138
DlReturn ==
    /\ prog = "download_data" /\ pc = "links"
    /\ match_pos > Len(matches)
    /\ pc' = "done"
    /\ UNCHANGED << Input, Download >>
    /\ DlUnchanged

(***************************************************************************)
(* Download scenarios: up to MaxLinks links of the subcategory "S", in one *)
(* category or two, beside a subcategory of another name.                  *)
(***************************************************************************)
LinkPool ==
    { [name |-> << "a", " ", "b" >>, url |-> << "/", "d", "/", "a", ".", "x" >>],
      [name |-> << "a", " ", "b" >>, url |-> << "h","t","t","p",":","/","/","h","/","d","/" >>],
      [name |-> << "a" >>, url |-> << "d", "/", "a", "_", "1", ".", "x" >>],
      [name |-> << "a" >>, url |-> << "h","t","t","p",":","/","/","h","/","b" >>] }

LinkLists == UNION { [1..n -> LinkPool] : n \in 0..MaxLinks }

\* data_links.yaml with the links `first` and `second` of "S" in two categories
YamlData(first, second) ==
    << [ category |-> << "1" >>,
         subcategories |-> << [name |-> T_S, links |-> first] >> ],
       [ category |-> << "2" >>,
         subcategories |-> << [name |-> << "T" >>, links |-> first],
                              [name |-> T_S, links |-> second] >> ] >>

YamlFiles ==
    { <<>>,
      << [ category |-> << "1" >>,
           subcategories |-> << [name |-> << "T" >>, links |-> <<>>] >> ] >> }
    \cup { YamlData(ls, <<>>) : ls \in LinkLists }
    \cup { YamlData(<<>>, ls) : ls \in LinkLists }
    \cup { YamlData(SubSeq(ls, 1, 1), Tail(ls)) : ls \in LinkLists \ { <<>> } }

CachedFiles ==
    { {},
      { PathJoin(CacheDir, << "a", ".", "x" >>) },
      { PathJoin(CacheDir, << "a", ".", "x" >>), PathJoin(CacheDir, << "a", "_", "1", ".", "x" >>) },
      { PathJoin(CacheDir, << "a", "_", "b" >> \o T_xlsx), PathJoin(CacheDir, << "_", "1" >>) } }

InitDownload ==
    /\ banking_config = Config(<< 1 >>)
    /\ ws = Sheet(<<>>, <<>>, <<>>)
    /\ template = NoTemplate
    /\ data_region = DefaultRegion
    /\ yaml_data \in YamlFiles
    /\ files \in CachedFiles
    /\ Start("download_data")

NextDownload == DlLoad \/ DlLink \/ DlNextMatch \/ DlReturn

SpecDownload == InitDownload /\ [][NextDownload]_vars

\* the k-th path tried for a filename: the filename itself, then name_1, name_2, ...
\* with the extension kept
Candidate(filename, k) ==
    IF k = 0 THEN PathJoin(CacheDir, filename)
    ELSE PathJoin(CacheDir, Splitext(filename)[1] \o << "_" >> \o Str(k)
                            \o Splitext(filename)[2])

\* the links whose iteration is over
Processed ==
    { id \in (1..Len(matches)) \X (1..MaxLinks) :
        /\ id[2] <= Len(matches[id[1]])
        /\ \/ id[1] < match_pos
           \/ id[1] = match_pos /\ id[2] < link_pos }

EntriesFor(list, id) == Cardinality({ i \in 1..Len(list) : list[i].link = id })

\* C25: download_subcategory_data never opens for writing a path that exists: it
\* writes to the first of filename, name_1, name_2, ... that does not exist, so no
\* cached file and no file saved earlier in the run is overwritten; every
\* processed link has exactly one entry, in downloaded_files or in
\* failed_downloads, and a downloaded entry names the path written for its link
C25_NoOverwrite ==
    (prog = "download_data" /\ pc \in {"links", "done"}) =>
        /\ \A i \in 1..Len(writes) :
              /\ ~Exists(writes[i].before, writes[i].path)
              /\ \E k \in 0..(Cardinality(writes[i].before) + 1) :
                    /\ writes[i].path = Candidate(writes[i].filename, k)
                    /\ \A j \in 0..(k - 1) :
                          Exists(writes[i].before, Candidate(writes[i].filename, j))
              /\ writes[i].path \in files
              /\ \A j \in 1..(i - 1) :
                    /\ writes[j].path # writes[i].path
                    /\ writes[j].before \cup { writes[j].path } \subseteq writes[i].before
        /\ \A id \in Processed :
              EntriesFor(downloaded_files, id) + EntriesFor(failed_downloads, id) = 1
        /\ Len(downloaded_files) + Len(failed_downloads) = Cardinality(Processed)
        /\ \A i \in 1..Len(downloaded_files) :
              \E j \in 1..Len(writes) :
                  /\ writes[j].link = downloaded_files[i].link
                  /\ writes[j].path = downloaded_files[i].path

\* C25 witness: with a.x and a_1.x cached, two links of one run were given the
\* filename a.x: the first was saved as a_2.x, the second as a_3.x, and one of the
\* two is in failed_downloads because its write failed
C25_Witness ==
    /\ prog = "download_data" /\ pc = "done"
    /\ Len(writes) = 2
    /\ writes[1].filename = writes[2].filename
    /\ writes[1].path = Candidate(writes[1].filename, 2)
    /\ writes[2].path = Candidate(writes[2].filename, 3)
    /\ downloaded_files # <<>> /\ failed_downloads # <<>>

\* offset (1-based, from the section start) of the row whose name cell holds name
OffsetsNamed(name) == { j \in 1..Len(Hierarchy) : NameColumn(ws, j) = name }

\* the pass is in lockstep: the iteration at position level_pos reads the row
\* level_pos - 1 rows below the section start
PassInLockstep(first_row) ==
    /\ pc = "assets" => row_index = first_row + level_pos - 1
    /\ pc \in {"assets", "build", "done", "mapped"} => level_pos <= Len(Hierarchy) + 1
    /\ pc \in {"build", "done", "mapped"} => level_pos = Len(Hierarchy) + 1

\* C26: in the declared-level extractors a section pass reads the len(hierarchy)
\* rows from the section start on, one level per row; a row without a name creates
\* no node and uses up its own level: the node of the row at 0-based offset j
\* carries hierarchy[j] whatever rows without a name precede it, only named rows
\* have nodes, and there are at most len(hierarchy) nodes
C26_LevelByRowOffset ==
    /\ prog = "hierarchy_mapper" =>
          /\ PassInLockstep(banking_config.assets_row)
          /\ Len(assets_data) = Len(NamedOffsets(ws, Examined))
          /\ Len(assets_data) <= Len(Hierarchy)
          /\ \A i \in 1..Len(assets_data) :
                LET j == assets_data[i].row - banking_config.assets_row + 1
                IN  /\ j = NamedOffsets(ws, Examined)[i]
                    /\ assets_data[i].hierarchy_level = Hierarchy[j]
                    /\ NameColumn(ws, j) # PyNone
                    /\ assets_data[i].name = Strip(PyStr(NameColumn(ws, j)))
    /\ prog = "dataframe_parser" =>
          /\ PassInLockstep(banking_config.assets_row)
          /\ Cardinality({ all_data[i].name : i \in 1..Len(all_data) })
                <= Len(NamedOffsets(ws, Examined))
          /\ \A i \in 1..Len(all_data) :
                /\ all_data[i].name # PyNone
                /\ \E j \in 1..Examined :
                      /\ OffsetsNamed(all_data[i].name) = { j }
                      /\ all_data[i].hierarchy_level = Hierarchy[j]
    /\ (prog = "extract_json" /\ pc \in {"assets", "done"}) =>
          /\ pc = "assets" => row_index = banking_config.assets_row - 1 + level_pos - 1
          /\ level_pos <= Len(Hierarchy) + 1
          /\ pc = "done" => level_pos = Len(Hierarchy) + 1
          /\ Len(result.nodes) = Len(NamedOffsets(ws, Examined))
          /\ Len(result.nodes) <= Len(Hierarchy)
          /\ \A id \in 1..Len(result.nodes) :
                result.nodes[id].name
                   = Strip(PyStr(NameColumn(ws, NamedOffsets(ws, Examined)[id])))
          /\ \A i \in 2..Len(stack) :
                stack[i][2] = Hierarchy[NamedOffsets(ws, Examined)[stack[i][1]]]
          /\ result.nodes # <<>> => stack[Len(stack)][1] = Len(result.nodes)

\* C26 witness: extract_hierarchy_data has finished a pass over a level list with
\* two different levels in which a row without a name lies above a named row
C26_Witness ==
    /\ prog = "hierarchy_mapper" /\ pc = "done"
    /\ \E i \in 1..Len(assets_data) :
          LET j == assets_data[i].row - banking_config.assets_row + 1
          IN  /\ \E b \in 1..(j - 1) : NameColumn(ws, b) = PyNone /\ Hierarchy[b] # Hierarchy[j]
              /\ j > i
              /\ assets_data[i].hierarchy_level = Hierarchy[j]

\* the offsets of the named rows of the section, in row order
Named == NamedOffsets(ws, Len(Hierarchy))

\* the level list starts at 1 and, from one named row to the next, never rises
\* by more than one
StartsAtOneStepsUpByOne ==
    /\ Hierarchy # <<>> /\ Hierarchy[1] = 1
    /\ \A i \in 1..(Len(Named) - 1) : Hierarchy[Named[i + 1]] <= Hierarchy[Named[i]] + 1

\* offset of the most recent earlier named row of level exactly one less, 0 (none)
\* for a row of level 1 or without such a row
DirectParent(j) ==
    LET c == { a \in 1..(j - 1) :
                 NameColumn(ws, a) # PyNone /\ Hierarchy[a] = Hierarchy[j] - 1 }
    IN  IF Hierarchy[j] = 1 \/ c = {} THEN 0 ELSE Max(c)

\* the parents the finished program has given the i-th named row, as row offsets
\* (0 for no parent); no element when the row is not in the output
HmParentsGiven(i) ==
    { Named[p] : p \in ParentsIn(children, i) }
    \cup { 0 : r \in { k \in 1..Len(root_nodes) : root_nodes[k] = i } }
EjParentsGiven(i) == { IF p = 0 THEN 0 ELSE Named[p] : p \in EjHolders(i) }
DfParentsGiven(i) ==
    { IF all_data[k].parent = PyNone THEN 0
      ELSE CHOOSE j \in 1..Len(Hierarchy) : NameColumn(ws, j) = all_data[k].parent :
        k \in { x \in 1..Len(all_data) : all_data[x].name = NameColumn(ws, Named[i]) } }

ParentsGiven(i) ==
    CASE prog = "hierarchy_mapper" -> HmParentsGiven(i)
      [] prog = "extract_json" -> EjParentsGiven(i)
      [] OTHER -> DfParentsGiven(i)

\* C27: for every level list that starts at 1 and never rises by more than one
\* from one named row to the next, parse_excel_to_dataframe, parse_section and
\* build_section_hierarchy give every named row the same parent: the most recent
\* earlier row of level exactly one less, none for a row of level 1
C27_SameParentInAllThree ==
    (Finished /\ pc = "done" /\ StartsAtOneStepsUpByOne) =>
        \A i \in 1..Len(Named) : ParentsGiven(i) = { DirectParent(Named[i]) }

\* C28: in parse_section, for levels that are all >= 1, after every row the bottom
\* of the stack is the section root with level 0 and the levels on the stack
\* strictly increase from bottom to top: the stack is never empty and stack[-1]
\* never fails
C28_StackRootedAndIncreasing ==
    /\ prog = "extract_json" => pc # "error"
    /\ InParseSection =>
          /\ stack # <<>>
          /\ stack[1] = << 0, 0 >>
          /\ \A i \in 1..Len(stack) : \A j \in 1..Len(stack) :
                i < j => stack[i][2] < stack[j][2]
          /\ \A i \in 2..Len(stack) : stack[i][2] >= 1

\* C28 witness: after a row that popped two ancestors the stack holds the root and
\* two nodes
C28_Witness ==
    /\ prog = "extract_json" /\ pc = "assets"
    /\ Len(stack) = 3
    /\ Len(result.nodes) >= 4
    /\ LevelOfNode(Len(result.nodes) - 1) > LevelOfNode(Len(result.nodes) - 2)
    /\ LevelOfNode(Len(result.nodes) - 2) >= LevelOfNode(Len(result.nodes))

\* every entry of the mapping r has its positional depth as hierarchy_level
DepthIsDeclaredLevel(r) ==
    \A i \in 1..Len(r) :
        /\ r[i].entry.level = Len(r[i].entry.path)
        /\ r[i].entry.level = r[i].entry.hierarchy_level

\* C29: in the readable mapping of map_test_schema_to_hierarchy every entry's
\* "level", the length of its path in the tree of build_section_hierarchy, equals
\* its declared "hierarchy_level", for any declared level list
C29_DepthIsDeclaredLevel ==
    HmMapped =>
        /\ DepthIsDeclaredLevel(readable.assets)
        /\ DepthIsDeclaredLevel(readable.liabilities)

\* C29 witness: a mapping with an entry three levels deep, made from a level list
\* of which build_section_hierarchy has dropped a row
C29_Witness ==
    /\ HmMapped
    /\ Len(readable.assets) < Len(assets_data)
    /\ \E i \in 1..Len(readable.assets) :
          readable.assets[i].entry.hierarchy_level = 3 /\ Len(readable.assets[i].entry.path) = 3

\* the non-blank title rows among the rows read so far
DhTitled ==
    { r \in data_region.start_row..(row_index - 1) :
        /\ WsCell(ws, r, data_region.title_col) # PyNone
        /\ DhTitle(r) # <<>> }

\* how many times node id stands in a "children" list: of the two section roots
\* or of a node
DhTimesAttached(id) ==
    Cardinality({ i \in 1..Len(detected.assets) : detected.assets[i] = id })
    + Cardinality({ i \in 1..Len(detected.liabilities) : detected.liabilities[i] = id })
    + Cardinality({ pi \in (1..Len(detected.nodes)) \X (1..Len(detected.nodes)) :
                      /\ pi[2] <= Len(detected.children[pi[1]])
                      /\ detected.children[pi[1]][pi[2]] = id })

\* the nodes reachable from the assets root
DhUnderAssets ==
    UNION { { detected.assets[i] } \cup EjDescendants(detected.children, detected.assets[i]) :
              i \in 1..Len(detected.assets) }

\* C30: in detect_hierarchy a row processed after the switch to liabilities is
\* never an assets row again; every non-blank row yields exactly one node, which
\* stands in exactly one children list; and no node created at or after the
\* switch is attached beneath a node created before it or reachable from the
\* assets root
C30_SectionsMonotone ==
    InDetect =>
        /\ \A a \in 1..Len(detected.nodes) : \A b \in 1..Len(detected.nodes) :
              (a < b /\ ~detected.in_assets[a]) => ~detected.in_assets[b]
        /\ (detected.nodes # <<>> /\ ~detected.in_assets[Len(detected.nodes)]) => ~in_assets
        /\ in_assets => \A a \in 1..Len(detected.nodes) : detected.in_assets[a]
        /\ { detected.row[id] : id \in 1..Len(detected.nodes) } = DhTitled
        /\ Len(detected.nodes) = Cardinality(DhTitled)
        /\ \A id \in 1..Len(detected.nodes) : DhTimesAttached(id) = 1
        /\ \A id \in 1..Len(detected.nodes) :
              ~detected.in_assets[id] =>
                  /\ id \notin DhUnderAssets
                  /\ DhParent(id) # 0 => ~detected.in_assets[DhParent(id)]

\* C30 witness: the switch happened at an indented marker row while an assets
\* node was on the stack, and an indented row after it hangs beneath the marker
C30_Witness ==
    /\ prog = "detect_hierarchy" /\ pc = "done"
    /\ \E m \in 2..Len(detected.nodes) :
          /\ detected.in_assets[m - 1] /\ ~detected.in_assets[m]
          /\ detected.level[m] > 0
          /\ detected.level[m - 1] = 0
          /\ m \in { detected.liabilities[i] : i \in 1..Len(detected.liabilities) }
          /\ \E c \in (m + 1)..Len(detected.nodes) : DhParent(c) = m

====
